---- MODULE Spec2Model ----
(***************************************************************************)
(* Model of colour/io/luts/cinespace_csp.py: read_LUT_Cinespace and        *)
(* write_LUT_Cinespace, the reader and the writer of the Cinespace .csp    *)
(* LUT format, over a small file system.                                   *)
(*                                                                         *)
(* Text.  A file is a flat sequence of tokens.  A token is a string: a     *)
(* numeral, a word, a blank " " or the line terminator "\n".  Numbers are  *)
(* fixed point integers; the unit is half of the last decimal place that   *)
(* format_array_as_row keeps, so formatting rounds to a multiple of Grain  *)
(* and parsing returns the number a numeral denotes.  One numeral stands   *)
(* for all the decimal spellings of one number.                            *)
(***************************************************************************)
EXTENDS Integers, Sequences, FiniteSets, TLC

\* ------------------------------------------------------------------------
\* Numbers
\* ------------------------------------------------------------------------

\* np.nan; no arithmetic result of the model reaches this value
NaN == -1000

\* the number 1.0 of unity_range, in units
One == 4

\* the distance between two numbers that `decimals` digits can tell apart
Grain == 2

IsNaN(x) == x = NaN

\* the bounds of the two size checks of the writer
ShaperSizeMin == 2

ShaperSizeMax == 65536

CubeSizeMin == 2

CubeSizeMax == 256

\* the numerals of the numbers 0, 1, ... units (a quarter each)
NumText ==
    << "0.0", "0.25", "0.5", "0.75", "1.0", "1.25", "1.5", "1.75", "2.0",
       "2.25", "2.5", "2.75", "3.0", "3.25", "3.5", "3.75", "4.0" >>

Digits == << "0", "1", "2", "3", "4", "5", "6", "7", "8", "9" >>

\* str(n) of a natural number
RECURSIVE IntStr(_)
IntStr(n) ==
    IF n < 10 THEN Digits[n + 1]
    ELSE IntStr(n \div 10) \o Digits[(n % 10) + 1]

IndexOf(seq, t) == CHOOSE i \in 1..Len(seq) : seq[i] = t

IsNumText(t) == \E i \in 1..Len(NumText) : NumText[i] = t

\* the integers whose numerals the files of the model hold: the counts, and
\* the axes up to the first that the writer refuses
IntRange == 0..(CubeSizeMax + 1)

\* int(t) succeeds
IsIntText(t) == \E n \in IntRange : IntStr(n) = t

ParseInt(t) == CHOOSE n \in IntRange : IntStr(n) = t

\* float(t) succeeds
IsFloatText(t) == t = "nan" \/ IsNumText(t) \/ IsIntText(t)

ParseFloat(t) ==
    IF t = "nan" THEN NaN
    ELSE IF IsNumText(t) THEN IndexOf(NumText, t) - 1
    ELSE One * ParseInt(t)

\* the integer nearest to num / den, ties to the even one (np.around)
RoundHalfEven(num, den) ==
    LET f == num \div den
        r == num % den
    IN  IF 2 * r < den THEN f
        ELSE IF 2 * r > den THEN f + 1
        ELSE IF f % 2 = 0 THEN f ELSE f + 1

\* the number that the text written for num / den denotes
RoundQ(num, den) == Grain * RoundHalfEven(num, den * Grain)

Round(x) == IF IsNaN(x) THEN NaN ELSE RoundQ(x, 1)

\* "{:.{decimals}f}".format(np.around(x, decimals)) for one number
FormatFloat(x) == IF IsNaN(x) THEN "nan" ELSE NumText[Round(x) + 1]

\* format_array_as_row(a, decimals): the numerals joined by one blank
RECURSIVE FormatRow(_)
FormatRow(a) ==
    IF a = << >> THEN << >>
    ELSE IF Len(a) = 1 THEN << FormatFloat(a[1]) >>
    ELSE << FormatFloat(a[1]), " " >> \o FormatRow(Tail(a))

\* ------------------------------------------------------------------------
\* Lines
\* ------------------------------------------------------------------------

IsSpace(t) == t \in {" ", "\n"}

SetMin(S) == CHOOSE x \in S : \A y \in S : x <= y

SetMax(S) == CHOOSE x \in S : \A y \in S : x >= y

\* file.readlines(): the lines, each with its terminator.  (The text is
\* cut at the line terminator nearest to its middle, so that a long file
\* is split in few nested steps.)
RECURSIVE ReadLines(_)
ReadLines(text) ==
    IF text = << >> THEN << >>
    ELSE LET nl == {i \in 1..(Len(text) - 1) : text[i] = "\n"}
         IN  IF nl = {} THEN << text >>
             ELSE LET low == {i \in nl : 2 * i <= Len(text)}
                      k   == IF low # {} THEN SetMax(low) ELSE SetMin(nl)
                  IN  ReadLines(SubSeq(text, 1, k))
                         \o ReadLines(SubSeq(text, k + 1, Len(text)))

\* str.strip()
Strip(line) ==
    LET ink == {i \in 1..Len(line) : ~IsSpace(line[i])}
    IN  IF ink = {} THEN << >> ELSE SubSeq(line, SetMin(ink), SetMax(ink))

\* str.split(): the words of a line, a word being a run of tokens with no
\* blank between them
RECURSIVE Split(_)
Split(line) ==
    LET s == Strip(line)
    IN  IF s = << >> THEN << >>
        ELSE LET sp == {i \in 1..Len(s) : IsSpace(s[i])}
             IN  IF sp = {} THEN << s >>
                 ELSE LET k == SetMin(sp)
                      IN  << SubSeq(s, 1, k - 1) >>
                             \o Split(SubSeq(s, k + 1, Len(s)))

\* [line.strip() for line in lines if line.strip()]
StripLines(lines) ==
    LET NotBlank(l) == l # << >>
    IN  SelectSeq([i \in 1..Len(lines) |-> Strip(lines[i])], NotBlank)

\* lines[a:b] of Python, a and b counted from 0
Slice(lines, a, b) ==
    SubSeq(lines, a + 1, IF b < Len(lines) THEN b ELSE Len(lines))

\* ------------------------------------------------------------------------
\* LUT values (colour.io.luts: LUT1D, LUT3x1D, LUT3D, LUTSequence)
\* ------------------------------------------------------------------------

\* One LUT object.  table: LUT1D a row of numbers, LUT3x1D a list of rows
\* of three numbers, LUT3D table[i][j][k] a row of three numbers.
\* domain: a list of rows (LUT1D: a row of numbers).
Lut(cls, name, comments, domain, table) ==
    [cls |-> cls, name |-> name, comments |-> comments,
     domain |-> domain, table |-> table]

\* A value handed to the writer or returned by the reader: one LUT object,
\* or a LUTSequence of LUT objects
Bare(l) == [seq |-> FALSE, elems |-> << l >>]

LUTSequence(ls) == [seq |-> TRUE, elems |-> ls]

NoLUT == [seq |-> FALSE, elems |-> << >>]

\* the default domain [[0, 0, 0], [1, 1, 1]]
unity_range == << <<0, 0, 0>>, <<One, One, One>> >>

\* the size property of a LUT: the length of the first axis of its table
LUT_size(l) == Len(l.table)

\* LUT3x1D.is_domain_explicit(): the domain is not a 2 x 3 array
is_domain_explicit(l) == Len(l.domain) # 2

\* LUT1D.convert(LUT3x1D): the table and the domain pair repeated on the
\* three channels
convert_LUT3x1D(l) ==
    Lut("LUT3x1D", l.name, l.comments,
        [r \in 1..Len(l.domain) |-> << l.domain[r], l.domain[r], l.domain[r] >>],
        [r \in 1..Len(l.table) |-> << l.table[r], l.table[r], l.table[r] >>])

\* LUT3x1D() and LUT3D() built with no argument: the identity placeholders
\* of the writer, whose tables the writer never reads
DefaultLUT3x1D == Lut("LUT3x1D", << "Unity" >>, << >>, unity_range, << >>)

DefaultLUT3D == Lut("LUT3D", << "Unity" >>, << >>, unity_range, << >>)

\* tstack((a, b, c)): rows a, b, c of equal length become the columns
\* the channels stacked in the order G, R, B
tstack_Swapped(a, b, c) == [j \in 1..Len(a) |-> << b[j], a[j], c[j] >>]

tstack(a, b, c) == [j \in 1..Len(a) |-> << a[j], b[j], c[j] >>]

\* ------------------------------------------------------------------------
\* read_LUT_Cinespace
\* ------------------------------------------------------------------------

\* the locals of the reader once the sections of the file are parsed
NoLocals ==
    [parsed |-> FALSE, is_3D |-> FALSE, title |-> << >>, comments |-> << >>,
     pre_LUT |-> << >>, size |-> << >>, table |-> << >>]

Err(status, msg) ==
    [status |-> status, msg |-> msg, lut |-> NoLUT, locals |-> NoLocals]

Ok(lut) == [status |-> "ok", msg |-> "", lut |-> lut, locals |-> NoLocals]

\* an outcome, with the locals the branches worked on
WithLocals(r, l) == [r EXCEPT !.locals = l]

BEGIN_METADATA == << "BEGIN", " ", "METADATA" >>

END_METADATA == << "END", " ", "METADATA" >>

\* int(line) succeeds
IsIntLine(line) == Len(line) = 1 /\ IsIntText(line[1])

\* every word of the line is the text of a float
IsFloatRow(words) ==
    \A i \in 1..Len(words) : Len(words[i]) = 1 /\ IsFloatText(words[i][1])

FloatRow(words) == [i \in 1..Len(words) |-> ParseFloat(words[i][1])]

IntRow(words) == [i \in 1..Len(words) |-> ParseInt(words[i][1])]

IsIntRow(words) ==
    \A i \in 1..Len(words) : Len(words[i]) = 1 /\ IsIntText(words[i][1])

\* the title left among the comments
parse_metadata_section_TitleKept(metadata) ==
    IF Len(metadata) > 0
    THEN [title |-> metadata[1], comments |-> metadata]
    ELSE [title |-> << >>, comments |-> << >>]

\* _parse_metadata_section
parse_metadata_section(metadata) ==
    IF Len(metadata) > 0
    THEN [title |-> metadata[1], comments |-> Tail(metadata)]
    ELSE [title |-> << >>, comments |-> << >>]

\* the metadata loop over lines[2:]: the index i of the first END METADATA
\* line (-1 when there is none) and the lines captured before it
MetadataScan(rest) ==
    LET ends  == {i \in 1..Len(rest) : rest[i] = END_METADATA}
        stop  == IF ends = {} THEN Len(rest) + 1 ELSE SetMin(ends)
        begs  == {i \in 1..(stop - 1) : rest[i] = BEGIN_METADATA}
        first == IF begs = {} THEN stop ELSE SetMin(begs)
        Kept(l) == l # BEGIN_METADATA
    IN  [i |-> IF ends = {} THEN -1 ELSE stop - 1,
         metadata |-> SelectSeq(SubSeq(rest, first + 1, stop - 1), Kept)]

\* the row filled with NaN on its left
PadNaN_Left(array, n) ==
    [j \in 1..n |-> IF j <= n - Len(array) THEN NaN ELSE array[j - (n - Len(array))]]

\* np.pad(array, (0, n - len(array)), constant_values=np.nan)
PadNaN(array, n) == [j \in 1..n |-> IF j <= Len(array) THEN array[j] ELSE NaN]

\* _parse_domain_section: the 6 x pre_LUT_size block, or the error raised
parse_domain_section(lines) ==
    LET CountErr(i) ==
            IF Len(lines) < i + 1 THEN "IndexError"
            ELSE IF ~IsIntLine(lines[i + 1]) THEN "ValueError" ELSE "ok"
        RowErr(i) ==
            IF Len(lines) < i + 1 THEN "IndexError"
            ELSE IF ~IsFloatRow(Split(lines[i + 1])) THEN "ValueError" ELSE "ok"
        RECURSIVE FirstErr(_, _, _)
        FirstErr(E(_), idx, k) ==
            IF k > Len(idx) THEN "ok"
            ELSE IF E(idx[k]) # "ok" THEN E(idx[k]) ELSE FirstErr(E, idx, k + 1)
        cerr == FirstErr(CountErr, << 0, 3, 6 >>, 1)
        rows == << 1, 2, 4, 5, 7, 8 >>
    IN  IF cerr # "ok" THEN [status |-> cerr, pre |-> << >>]
        ELSE LET rerr == FirstErr(RowErr, rows, 1)
             IN  IF rerr # "ok" THEN [status |-> rerr, pre |-> << >>]
                 ELSE
        LET pre_LUT_size ==
                SetMax({ParseInt(lines[i + 1][1]) : i \in {0, 3, 6}})
            pre_LUT == [k \in 1..6 |-> FloatRow(Split(lines[rows[k] + 1]))]
        IN  IF \E k \in 1..6 : Len(pre_LUT[k]) > pre_LUT_size
            THEN [status |-> "ValueError", pre |-> << >>]
            ELSE [status |-> "ok",
                  pre |-> [k \in 1..6 |-> PadNaN(pre_LUT[k], pre_LUT_size)]]

\* _parse_table_section: the size row and the table rows, or the error
parse_table_section(lines) ==
    IF Len(lines) = 0 THEN [status |-> "IndexError", size |-> << >>, table |-> << >>]
    ELSE
    LET sz   == Split(lines[1])
        rows == [r \in 1..(Len(lines) - 1) |-> Split(lines[r + 1])]
    IN  IF ~IsIntRow(sz) THEN [status |-> "ValueError", size |-> << >>, table |-> << >>]
        ELSE IF \E r \in 1..Len(rows) :
                    ~IsFloatRow(rows[r]) \/ Len(rows[r]) # Len(rows[1])
        THEN [status |-> "ValueError", size |-> << >>, table |-> << >>]
        ELSE [status |-> "ok", size |-> IntRow(sz),
              table |-> [r \in 1..Len(rows) |-> FloatRow(rows[r])]]

RECURSIVE Prod(_)
Prod(s) == IF s = << >> THEN 1 ELSE Head(s) * Prod(Tail(s))

\* a table that holds more rows than its size line says
TableSizeValid_AtMost(size, table) == Prod(size) <= Len(table)

\* np.prod(size) == len(table)
TableSizeValid(size, table) == Prod(size) = Len(table)

\* the 12 numbers of the block laid out as 4 rows of 3, not transposed
ReshapeTranspose_Untransposed(pre_LUT) ==
    LET flat == [n \in 0..11 |-> pre_LUT[(n \div 2) + 1][(n % 2) + 1]]
    IN  [a \in 1..4 |-> [c \in 1..3 |-> flat[3 * (a - 1) + (c - 1)]]]

\* the table reshaped in row-major order, the last axis varying fastest
ReshapeF_RowMajor(table, size) ==
    [i \in 1..size[1] |-> [j \in 1..size[2] |-> [k \in 1..size[3] |->
        table[(k - 1) + size[3] * (j - 1) + size[3] * size[2] * (i - 1) + 1]]]]

\* np.reshape(pre_LUT, (3, 4)) of a 6 x 2 block, transposed: 4 rows of 3
ReshapeTranspose(pre_LUT) ==
    LET flat == [n \in 0..11 |-> pre_LUT[(n \div 2) + 1][(n % 2) + 1]]
        resh == [r \in 0..2 |-> [c \in 0..3 |-> flat[4 * r + c]]]
    IN  [a \in 1..4 |-> << resh[0][a - 1], resh[1][a - 1], resh[2][a - 1] >>]

\* table.reshape([size[0], size[1], size[2], 3], order="F")
ReshapeF(table, size) ==
    LET M == Len(table)
        flat(f) == table[(f % M) + 1][(f \div M) + 1]
        n == size[1] * size[2] * size[3]
    IN  [i \in 1..size[1] |-> [j \in 1..size[2] |-> [k \in 1..size[3] |->
            [ch \in 1..3 |->
                flat((i - 1) + size[1] * (j - 1) + size[1] * size[2] * (k - 1)
                        + n * (ch - 1))]]]]

\* the reshape is possible: the table has as many numbers as the cube
CanReshapeF(table, size) ==
    /\ Len(size) >= 3
    /\ size[1] * size[2] * size[3] * 3
          = Len(table) * (IF Len(table) = 0 THEN 0 ELSE Len(table[1]))

\* pre_LUT.shape == (6, 2) and the value rows are those of unity_range
IsUnityBlock(pre_LUT) ==
    /\ Len(pre_LUT[1]) = 2
    /\ SubSeq(ReshapeTranspose(pre_LUT), 3, 4) = unity_range

\* a table of rows of three numbers, however many
IsRangeTable_AnyRows(table) == Len(table) >= 2 /\ Len(table[1]) = 3

\* table.shape == (2, 3)
IsRangeTable(table) == Len(table) = 2 /\ Len(table[1]) = 3

\* the shaper values scaled by the width of the range, the minimum left out
Rescale_NoOffset(pre_table, table) ==
    LET table_max == table[2]
        table_min == table[1]
        Scale(x, c) ==
            IF IsNaN(x) \/ IsNaN(table_max[c]) \/ IsNaN(table_min[c])
            THEN NaN
            ELSE (x * (table_max[c] - table_min[c])) \div One
    IN  [j \in 1..Len(pre_table) |->
            [c \in 1..3 |-> Scale(pre_table[j][c], c)]]

\* pre_table *= table_max - table_min; pre_table += table_min
Rescale(pre_table, table) ==
    LET table_max == table[2]
        table_min == table[1]
        Scale(x, c) ==
            IF IsNaN(x) \/ IsNaN(table_max[c]) \/ IsNaN(table_min[c])
            THEN NaN
            ELSE (x * (table_max[c] - table_min[c])) \div One + table_min[c]
    IN  [j \in 1..Len(pre_table) |->
            [c \in 1..3 |-> Scale(pre_table[j][c], c)]]

\* the branches after the with block: the LUT built from the parsed file
Classify(is_3D, title, comments, pre_LUT, size, table) ==
    LET cube_ok == CanReshapeF(table, size)
        CubeErr == IF Len(size) < 3 THEN Err("IndexError", "size")
                   ELSE Err("ValueError", "reshape")
        pre_domain == tstack(pre_LUT[1], pre_LUT[3], pre_LUT[5])
        pre_table  == tstack(pre_LUT[2], pre_LUT[4], pre_LUT[6])
    IN  IF is_3D /\ IsUnityBlock(pre_LUT)
        THEN IF ~cube_ok THEN CubeErr
             ELSE Ok(Bare(Lut("LUT3D", title, comments,
                              SubSeq(ReshapeTranspose(pre_LUT), 1, 2),
                              ReshapeF(table, size))))
        ELSE IF ~is_3D /\ IsUnityBlock(pre_LUT)
        THEN Ok(Bare(Lut("LUT3x1D", title, comments,
                         SubSeq(ReshapeTranspose(pre_LUT), 1, 2), table)))
        ELSE IF is_3D
        THEN IF ~cube_ok THEN CubeErr
             ELSE Ok(LUTSequence(<<
                    Lut("LUT3x1D", title \o << " ", "-", " ", "Shaper" >>,
                        << >>, pre_domain, pre_table),
                    Lut("LUT3D", title \o << " ", "-", " ", "Cube" >>,
                        comments, unity_range, ReshapeF(table, size)) >>))
        ELSE IF IsRangeTable(table)
        THEN Ok(Bare(Lut("LUT3x1D", title, comments, pre_domain,
                         Rescale(pre_table, table))))
        ELSE Ok(LUTSequence(<<
                    Lut("LUT3x1D", title \o << " ", "-", " ", "PreLUT" >>,
                        << >>, pre_domain, pre_table),
                    Lut("LUT3x1D", title \o << " ", "-", " ", "Table" >>,
                        comments, unity_range, table) >>))

\* a header that only has to begin like the magic token
HeaderValid_Prefix(header) == Len(header) >= 1 /\ header[1] = "CSPLUTV100"

\* header == "CSPLUTV100"
HeaderValid(header) == header = << "CSPLUTV100" >>

\* a kind line compared without regard to case
KindValid_AnyCase(kind) ==
    kind \in {<< "1D" >>, << "3D" >>, << "1d" >>, << "3d" >>}

\* kind in ("1D", "3D")
KindValid(kind) == kind \in {<< "1D" >>, << "3D" >>}

\* read_LUT_Cinespace(path) on the text of the file at path
read_LUT_Cinespace(text) ==
    LET raw == ReadLines(text)
    IN  IF ~(Len(raw) > 0) THEN Err("AssertionError", "LUT is empty")
        ELSE
    LET lines == StripLines(raw)
    IN  IF Len(lines) < 1 THEN Err("IndexError", "header")
        ELSE IF ~HeaderValid(lines[1])
        THEN Err("AssertionError", "LUT header is invalid")
        ELSE IF Len(lines) < 2 THEN Err("IndexError", "kind")
        ELSE IF ~KindValid(lines[2])
        THEN Err("AssertionError", "LUT type must be 1D or 3D")
        ELSE
    LET is_3D == lines[2] = << "3D" >>
        scan  == MetadataScan(Slice(lines, 2, Len(lines)))
        meta  == parse_metadata_section(scan.metadata)
        seek  == (IF scan.i >= 0 THEN 2 + scan.i ELSE 2) + 1
        dom   == parse_domain_section(Slice(lines, seek, seek + 9))
    IN  IF dom.status # "ok" THEN Err(dom.status, "domain")
        ELSE
    LET tab == parse_table_section(Slice(lines, seek + 9, Len(lines)))
    IN  IF tab.status # "ok" THEN Err(tab.status, "table")
        ELSE IF ~TableSizeValid(tab.size, tab.table)
        THEN WithLocals(
                Err("AssertionError", "LUT table size is invalid"),
                [parsed |-> TRUE, is_3D |-> is_3D, title |-> meta.title,
                 comments |-> meta.comments, pre_LUT |-> dom.pre,
                 size |-> tab.size, table |-> tab.table])
        ELSE WithLocals(
                Classify(is_3D, meta.title, meta.comments, dom.pre,
                         tab.size, tab.table),
                [parsed |-> TRUE, is_3D |-> is_3D, title |-> meta.title,
                 comments |-> meta.comments, pre_LUT |-> dom.pre,
                 size |-> tab.size, table |-> tab.table])

\* ------------------------------------------------------------------------
\* write_LUT_Cinespace
\* ------------------------------------------------------------------------


\* a sequence that only has to begin with a shaper and a cube
SequenceValid_AnyLength(v) ==
    /\ Len(v.elems) >= 2
    /\ v.elems[1].cls \in {"LUT1D", "LUT3x1D"}
    /\ v.elems[2].cls = "LUT3D"

\* len(LUT) == 2 and isinstance(LUT[0], (LUT1D, LUT3x1D))
\*               and isinstance(LUT[1], LUT3D)
SequenceValid(v) ==
    /\ Len(v.elems) = 2
    /\ v.elems[1].cls \in {"LUT1D", "LUT3x1D"}
    /\ v.elems[2].cls = "LUT3D"

\* a check that fails once the file is open for writing
Rejected_AfterOpen(status, after) ==
    [status |-> status, opened |-> TRUE, text |-> << >>, after |-> after]

\* an attest or the raise before open(path, "w"): the file is not touched
Rejected(status, after) ==
    [status |-> status, opened |-> FALSE, text |-> << >>, after |-> after]

\* the isinstance chain: the (shaper, cube) pair written, the title, the
\* two flags, and the sequence object of the caller after the call
Normalise(v) ==
    IF v.seq
    THEN IF ~SequenceValid(v)
         THEN [status |-> "AssertionError", after |-> v]
         ELSE LET first == IF v.elems[1].cls = "LUT1D"
                           THEN convert_LUT3x1D(v.elems[1]) ELSE v.elems[1]
              IN  [status |-> "ok",
                   LUT |-> << first, v.elems[2] >>,
                   name |-> first.name \o << " ", "-", " " >> \o v.elems[2].name,
                   has_3x1D |-> TRUE, has_3D |-> TRUE,
                   after |-> LUTSequence(<< first, v.elems[2] >>)]
    ELSE IF v.elems[1].cls = "LUT1D"
    THEN [status |-> "ok",
          LUT |-> << convert_LUT3x1D(v.elems[1]), DefaultLUT3D >>,
          name |-> v.elems[1].name,
          has_3x1D |-> TRUE, has_3D |-> FALSE, after |-> v]
    ELSE IF v.elems[1].cls = "LUT3x1D"
    THEN [status |-> "ok",
          LUT |-> << v.elems[1], DefaultLUT3D >>,
          name |-> v.elems[1].name,
          has_3x1D |-> TRUE, has_3D |-> FALSE, after |-> v]
    ELSE IF v.elems[1].cls = "LUT3D"
    THEN [status |-> "ok",
          LUT |-> << DefaultLUT3x1D, v.elems[1] >>,
          name |-> v.elems[1].name,
          has_3x1D |-> FALSE, has_3D |-> TRUE, after |-> v]
    ELSE [status |-> "TypeError", after |-> v]

\* the shaper size checked whether or not a shaper was supplied
ShaperSizeOk_Unguarded(n) ==
    ShaperSizeMin <= LUT_size(n.LUT[1]) /\ LUT_size(n.LUT[1]) <= ShaperSizeMax

\* the two attest calls before the file is opened
ShaperSizeOk(n) ==
    ~n.has_3x1D
        \/ (ShaperSizeMin <= LUT_size(n.LUT[1]) /\ LUT_size(n.LUT[1]) <= ShaperSizeMax)

CubeSizeOk(n) ==
    ~n.has_3D
        \/ (CubeSizeMin <= LUT_size(n.LUT[2]) /\ LUT_size(n.LUT[2]) <= CubeSizeMax)

\* the padded length for every channel
ragged_size_Padded(domain) == [c \in 1..3 |-> Len(domain)]

\* _ragged_size: per channel, the length less the number of NaN
ragged_size(domain) ==
    [c \in 1..3 |->
        Len(domain) - Cardinality({j \in 1..Len(domain) : IsNaN(domain[j][c])})]

\* A piece of output: the text written, and whether the code that writes
\* it ran to its end
Piece(text) == [ok |-> TRUE, text |-> text]

Failed(text) == [ok |-> FALSE, text |-> text]

\* the pieces in order, up to and with the first that fails
RECURSIVE Emit(_)
Emit(pieces) ==
    IF pieces = << >> THEN Piece(<< >>)
    ELSE IF ~Head(pieces).ok THEN Head(pieces)
    ELSE LET rest == Emit(Tail(pieces))
         IN  [ok |-> rest.ok, text |-> Head(pieces).text \o rest.text]

\* for j in range(size): write(f"{format_array_as_row(entry)} "), where
\* texts spells the entries that exist: the loop fails at the first that
\* does not
Entries(texts, size) ==
    LET n == IF Len(texts) < size THEN Len(texts) ELSE size
    IN  [ok |-> Len(texts) >= size,
         text |-> [q \in 1..(2 * n) |->
                    IF q % 2 = 1 THEN texts[(q + 1) \div 2] ELSE " "]]

\* the block of two samples written for a supplied shaper too
ShaperChannel_Synthetic(shaper, i) ==
    Piece(<< "2", "\n" >>
            \o FormatRow(<< shaper.domain[1][i], shaper.domain[2][i] >>)
            \o << "\n", "0.0", " ", "1.0", "\n" >>)

\* the three lines of channel i of a supplied shaper
ShaperChannel(shaper, i) ==
    LET explicit == is_domain_explicit(shaper)
        size == IF explicit THEN ragged_size(shaper.domain)[i]
                ELSE LUT_size(shaper)
        d0 == shaper.domain[1][i]
        d1 == shaper.domain[2][i]
        DomainText(j) ==
            IF explicit THEN FormatFloat(shaper.domain[j + 1][i])
            ELSE IF IsNaN(d0) \/ IsNaN(d1) THEN "nan"
            ELSE NumText[RoundQ(d0 * (LUT_size(shaper) - 1) + j * (d1 - d0),
                                LUT_size(shaper) - 1) + 1]
        TableText(j) == FormatFloat(shaper.table[j + 1][i])
        rows == IF Len(shaper.table) < size THEN Len(shaper.table) ELSE size
    IN  Emit(<< Piece(<< IntStr(size), "\n" >>),
                Entries([j \in 1..size |-> DomainText(j - 1)], size),
                Piece(<< "\n" >>),
                Entries([j \in 1..rows |-> TableText(j - 1)], size),
                Piece(<< "\n" >>) >>)

\* the three lines of channel i when no shaper was supplied
SyntheticChannel(domain, i, unit) ==
    Piece(<< "2", "\n" >>
            \o FormatRow(<< domain[1][i], domain[2][i] >>) \o << "\n" >>
            \o unit \o << "\n" >>)

\* the rows of the cube, the last axis varying fastest
FlattenF_RowMajor(table) ==
    LET s0 == Len(table)
        s1 == Len(table[1])
        s2 == Len(table[1][1])
    IN  [r \in 1..(s0 * s1 * s2) |->
            table[((r - 1) \div (s1 * s2)) + 1]
                 [(((r - 1) \div s2) % s1) + 1]
                 [((r - 1) % s2) + 1]]

\* the rows of the cube, the second axis varying fastest
FlattenF_SecondFastest(table) ==
    LET s0 == Len(table)
        s1 == Len(table[1])
        s2 == Len(table[1][1])
    IN  [r \in 1..(s0 * s1 * s2) |->
            table[(((r - 1) \div s1) % s0) + 1]
                 [((r - 1) % s1) + 1]
                 [((r - 1) \div (s0 * s1)) + 1]]

\* LUT[1].table.reshape([-1, 3], order="F"): the rows of the cube, the
\* first axis varying fastest
FlattenF(table) ==
    LET s0 == Len(table)
        s1 == Len(table[1])
        s2 == Len(table[1][1])
    IN  [r \in 1..(s0 * s1 * s2) |->
            table[((r - 1) % s0) + 1]
                 [(((r - 1) \div s0) % s1) + 1]
                 [((r - 1) \div (s0 * s1)) + 1]]

\* for array in table: write(f"{format_array_as_row(array, decimals)}\n")
TableRows(rows) ==
    IF rows = << >> THEN << >>
    ELSE LET w == Len(rows[1])
         IN  [n \in 1..(2 * w * Len(rows)) |->
                LET r == ((n - 1) \div (2 * w)) + 1
                    q == (n - 1) % (2 * w)
                IN  IF q % 2 = 0 THEN FormatFloat(rows[r][(q \div 2) + 1])
                    ELSE IF q = 2 * w - 1 THEN "\n" ELSE " "]

\* the comments left out of the file
CommentLines_Skipped(comments) == << >>

RECURSIVE CommentLines(_)
CommentLines(comments) ==
    IF comments = << >> THEN << >>
    ELSE Head(comments) \o << "\n" >> \o CommentLines(Tail(comments))

\* the body of the with block: what is written to the opened file
FileBody(n) ==
    LET shaper == n.LUT[1]
        cube   == n.LUT[2]
    IN  Emit(<<
        Piece(<< "CSPLUTV100", "\n" >>),
        Piece(IF n.has_3D THEN << "3D", "\n", "\n" >> ELSE << "1D", "\n", "\n" >>),
        Piece(BEGIN_METADATA \o << "\n" >>),
        Piece(n.name \o << "\n" >>),
        Piece(CommentLines(shaper.comments)),
        Piece(CommentLines(cube.comments)),
        Piece(END_METADATA \o << "\n", "\n" >>) >>
        \o
        (IF n.has_3D
         THEN (IF n.has_3x1D
               THEN [i \in 1..3 |-> ShaperChannel(shaper, i)]
               ELSE [i \in 1..3 |->
                        SyntheticChannel(cube.domain, i, FormatRow(<< 0, One >>))])
              \o << Piece(<< "\n", IntStr(Len(cube.table)), " ",
                             IntStr(Len(cube.table[1])), " ",
                             IntStr(Len(cube.table[1][1])), "\n" >>),
                    Piece(TableRows(FlattenF(cube.table))) >>
         ELSE [i \in 1..3 |->
                  SyntheticChannel(shaper.domain, i, << "0.0", " ", "1.0" >>)]
              \o << Piece(<< "\n", IntStr(LUT_size(shaper)), "\n" >>),
                    Piece(TableRows(shaper.table)) >>))

\* write_LUT_Cinespace(LUT, path, decimals): the outcome, whether the file
\* was opened, the text it then holds, and the caller's object afterwards
write_LUT_Cinespace(v) ==
    LET n == Normalise(v)
    IN  IF n.status # "ok"
        THEN Rejected(n.status, n.after)
        ELSE IF ~ShaperSizeOk(n) \/ ~CubeSizeOk(n)
        THEN Rejected("AssertionError", n.after)
        ELSE LET body == FileBody(n)
             IN  [status |-> IF body.ok THEN "ok" ELSE "IndexError",
                  opened |-> TRUE, text |-> body.text, after |-> n.after]

\* ------------------------------------------------------------------------
\* The values handed to the writer
\* ------------------------------------------------------------------------

\* the longest axis of a cube that is written or read
MaxAxis == 2

\* the longest shaper that is written or read
MaxCount == 3

\* how many times a value that was read is written again
MaxWriteBacks == 1

\* numbers that differ from one index to the next
Pat(n) == n % 9

CubeTable(shape) ==
    [i \in 1..shape[1] |-> [j \in 1..shape[2] |-> [k \in 1..shape[3] |->
        << Pat(i + 2 * j + 4 * k), Pat(i + 2 * j + 4 * k + 3),
           Pat(2 * i + j + k + 5) >> ]]]

Shapes == {<< a, b, c >> : a \in 1..MaxAxis, b \in 1..MaxAxis, c \in 1..MaxAxis}

\* cubes with one axis longer than the writer allows: the first, or another
LongFirst == << CubeSizeMax + 1, 1, 1 >>

LongSecond == << 2, CubeSizeMax + 1, 1 >>

Domains ==
    {unity_range, << <<0, 0, 0>>, <<4, 8, 4>> >>, << <<0, 1, 2>>, <<4, 6, 7>> >>}

ShaperTable(n) == [j \in 1..n |-> << Pat(2 * j - 2), Pat(2 * j), Pat(j + 3) >>]

\* sample positions given one by one; channel c holds len[c] of them and
\* NaN after them, as the reader builds them
ExplicitDomain(len) ==
    [j \in 1..SetMax({len[c] : c \in 1..3}) |->
        [c \in 1..3 |-> IF j <= len[c] THEN 2 * (j - 1) + (c - 1) ELSE NaN]]

RaggedTable(len) ==
    [j \in 1..SetMax({len[c] : c \in 1..3}) |->
        [c \in 1..3 |-> IF j <= len[c] THEN Pat(2 * j + c) ELSE NaN]]

Name_a == << "a" >>

Names == {<< >>, Name_a, << " ", "a" >>, << "a", " ", "b" >>, END_METADATA}

CommentLists ==
    {<< >>, << << "c" >> >>, << << "c" >>, << "d", " ", "e" >> >>,
     << << >>, << "c" >> >>, << << "c", " " >> >>, << END_METADATA >>,
     << BEGIN_METADATA, << "c" >> >>}

Cubes(names, comments, domains, shapes) ==
    {Lut("LUT3D", nm, cm, dm, CubeTable(sh)) :
        nm \in names, cm \in comments, dm \in domains, sh \in shapes}

Shapers(names, comments, domains, sizes) ==
    {Lut("LUT3x1D", nm, cm, dm, ShaperTable(n)) :
        nm \in names, cm \in comments, dm \in domains, n \in sizes}

ExplicitShapers(lens) ==
    {Lut("LUT3x1D", << "s" >>, << >>, ExplicitDomain(len), RaggedTable(len)) :
        len \in lens}

Tables1D(sizes) ==
    {Lut("LUT1D", Name_a, << << "c" >> >>, dm, [j \in 1..n |-> Pat(3 * j)]) :
        dm \in {<< 0, One >>, << One, 2 * One >>}, n \in sizes}

Counts ==
    {<< a, b, c >> : a \in 1..MaxCount, b \in 1..MaxCount, c \in 1..MaxCount}

OneComment == {<< << "c" >> >>}

\* a value that is no LUT
NotALUT == Lut("dict", << >>, << >>, << >>, << >>)

BareInputs ==
    {Bare(l) : l \in
        Cubes({Name_a}, OneComment, Domains, Shapes)
        \cup Cubes({Name_a}, OneComment, {unity_range}, {LongFirst, LongSecond})
        \cup Cubes(Names, CommentLists, {unity_range}, {<< 2, 1, 2 >>})
        \cup Shapers({Name_a}, OneComment, Domains, 1..MaxCount)
        \cup Shapers({Name_a}, OneComment, {unity_range}, {ShaperSizeMax + 1})
        \cup Shapers(Names, CommentLists, {unity_range}, {2})
        \cup ExplicitShapers({<< 3, 3, 3 >>, << 2, 3, 1 >>})
        \cup Tables1D(1..MaxCount)
        \cup {NotALUT}}

SeqShapers ==
    Shapers({<< "s" >>}, {<< >>, << << "x" >> >>},
            {unity_range, << <<0, 0, 0>>, <<4, 8, 4>> >>}, 1..MaxCount)
    \cup ExplicitShapers({<< 3, 3, 3 >>, << 2, 3, 1 >>})
    \cup {Lut("LUT3x1D", << "s" >>, << >>, unity_range,
              << <<0, 0, 0>>, <<One, One, One>> >>)}
    \cup Tables1D({2, 3})

SeqCubes ==
    Cubes({<< "q" >>}, OneComment, {unity_range},
          {<< 2, 2, 2 >>, << 2, 1, MaxAxis >>, << 1, 2, 2 >>})
    \cup Cubes({<< "q" >>}, {<< >>}, {<< <<0, 0, 0>>, <<4, 8, 4>> >>}, {<< 2, 2, 1 >>})

ACube == Lut("LUT3D", << "q" >>, << >>, unity_range, CubeTable(<< 2, 2, 2 >>))

AShaper == Lut("LUT3x1D", << "s" >>, << >>, unity_range, ShaperTable(2))

\* a shaper whose explicit domain has NaN before a sample as well as after
GappedShaper ==
    Lut("LUT3x1D", << "s" >>, << >>,
        << << NaN, 0, 0 >>, << 0, 2, NaN >>, << 2, 4, 2 >> >>,
        << << NaN, 1, 2 >>, << 3, 4, NaN >>, << 5, 6, 7 >> >>)

SequenceInputs ==
    {LUTSequence(<< a, b >>) : a \in SeqShapers, b \in SeqCubes}
    \cup {LUTSequence(<< GappedShaper, ACube >>)}
    \cup {LUTSequence(<< a, ACube >>) : a \in ExplicitShapers(Counts)}
    \cup {LUTSequence(<< AShaper, b >>) :
            b \in Cubes({<< "q" >>}, {<< >>}, {unity_range}, {LongFirst})}
    \cup {LUTSequence(<< a, ACube >>) :
            a \in Shapers({<< "s" >>}, {<< >>}, {unity_range},
                          {ShaperSizeMax + 1})}
    \cup {LUTSequence(ls) : ls \in
            {<< >>, << AShaper >>, << ACube >>, << ACube, ACube >>,
             << AShaper, AShaper >>, << ACube, AShaper >>,
             << AShaper, ACube, ACube >>, << NotALUT, ACube >>}}

LUTInputs == BareInputs \cup SequenceInputs

\* ------------------------------------------------------------------------
\* The files handed to the reader
\* ------------------------------------------------------------------------

\* the lines, each ended by a line terminator
RECURSIVE Unlines(_)
Unlines(lines) ==
    IF lines = << >> THEN << >>
    ELSE Head(lines) \o << "\n" >> \o Unlines(Tail(lines))

\* a row of numerals: the numbers as a file spells them, unrounded
RECURSIVE NumeralRow(_)
NumeralRow(a) ==
    IF a = << >> THEN << >>
    ELSE IF Len(a) = 1 THEN << NumText[a[1] + 1] >>
    ELSE << NumText[a[1] + 1], " " >> \o NumeralRow(Tail(a))

\* the value row of a channel of n samples.  "unit": from 0.0 to 1.0;
\* "near": the same but for the last sample, which rounds to 1.0;
\* "ramp": other values
ValueRow(style, n, c) ==
    [j \in 1..n |->
        IF style = "ramp" THEN Pat(j + c)
        ELSE IF n = 1 THEN 0
        ELSE IF style = "near" /\ j = n THEN One - 1
        ELSE (One * (j - 1)) \div (n - 1)]

\* the domain row of a channel of n samples
DomainRow(style, n, c) ==
    [j \in 1..n |-> IF style = "ramp" THEN 2 * (j - 1) + (c - 1) ELSE 2 * (j - 1)]

Styles == {"unit", "near", "ramp"}

\* the nine lines of the domain section: channel c declares count[c] and
\* its rows hold count[c] + dev[c] values
DomainLines(style, count, dev) ==
    LET Block(c) == << << IntStr(count[c]) >>,
                       NumeralRow(DomainRow(style, count[c] + dev[c], c)),
                       NumeralRow(ValueRow(style, count[c] + dev[c], c)) >>
    IN  Block(1) \o Block(2) \o Block(3)

\* the numbers of the rows of a table
\* (the two rows of a two-row table of kind 1D are whole numbers: they are
\* the range that the reader rescales the shaper to)
FileRowValues(kind, n) ==
    IF kind = "1D" /\ n = 2
    THEN << << 0, 0, One >>, << One, 2 * One, One >> >>
    ELSE [r \in 1..n |-> << Pat(r), Pat(2 * r + 1), Pat(r + 4) >>]

\* the rows of a table
FileRows(kind, n) ==
    [r \in 1..n |-> NumeralRow(FileRowValues(kind, n)[r])]

\* the size line and the rows after it
RECURSIVE IntRowText(_)
IntRowText(size) ==
    IF size = << >> THEN << >>
    ELSE IF Len(size) = 1 THEN << IntStr(size[1]) >>
    ELSE << IntStr(size[1]), " " >> \o IntRowText(Tail(size))

TableLines(kind, size, n) == << IntRowText(size) >> \o FileRows(kind, n)

\* the size line of a table of n rows
SizeOf(kind, n) == IF kind = "3D" THEN << n, 1, 1 >> ELSE << n >>

\* the metadata blocks
MetaBlocks ==
    {<< >>,
     << BEGIN_METADATA, END_METADATA >>,
     << BEGIN_METADATA, << "t" >>, END_METADATA >>,
     << BEGIN_METADATA, << "t" >>, << "c" >>, << "d", " ", "e" >>, END_METADATA >>,
     << << "x" >>, BEGIN_METADATA, << "t" >>, BEGIN_METADATA, << "c" >>,
        END_METADATA >>,
     << << "x" >> >>}

TitleBlock == << BEGIN_METADATA, << "t" >>, << "c" >>, END_METADATA >>

CSPFile(kind, meta, domain, table) ==
    Unlines(<< << "CSPLUTV100" >>, << kind >> >>) \o << "\n" >>
        \o Unlines(meta) \o << "\n" >> \o Unlines(domain) \o << "\n" >>
        \o Unlines(table)

Kinds == {"1D", "3D"}

NoDev == << 0, 0, 0 >>

\* what a file is made of: its kind line, the lines of its metadata, the
\* style, the declared counts and the row lengths of its domain section, its
\* size line and the number of its table rows
\* (form: "csp" for a file laid out as CSPFile lays it out, or the name of
\* what is different about the file)
Desc(kind, meta, style, count, dev, size, rows) ==
    [kind |-> kind, meta |-> meta, style |-> style, count |-> count,
     dev |-> dev, size |-> size, rows |-> rows, form |-> "csp"]

NoDesc == Desc("", << >>, "", << >>, << >>, << >>, 0)

\* the file of d, but for what its form says
Formed(d, form) == [d EXCEPT !.form = form]

\* the rows of a table of two rows that is the range from 0.0 to 1.0
IdentityRows == << << 0, 0, 0 >>, << One, One, One >> >>

\* rows of one number each
SingleRows(n) == [r \in 1..n |-> << Pat(r) >>]

\* the numbers of the rows of the table of d
FormRowValues(d) ==
    IF d.form = "identity" THEN IdentityRows
    ELSE IF d.form = "singles" THEN SingleRows(d.rows)
    ELSE FileRowValues(d.kind, d.rows)

\* the size line and the rows of the table of d
FormTableLines(d) ==
    LET rows == [r \in 1..d.rows |-> NumeralRow(FormRowValues(d)[r])]
    IN  IF d.form = "nosize" THEN rows
        ELSE IF d.form \in {"identity", "singles"}
        THEN << IntRowText(d.size) >> \o rows
        ELSE TableLines(d.kind, d.size, d.rows)

\* the nine lines of the domain section of d
FormDomainLines(d) ==
    LET lines == DomainLines(d.style, d.count, d.dev)
    IN  IF d.form = "floatcount" THEN [lines EXCEPT ![4] = << "2.0" >>]
        ELSE IF d.form = "wordcount" THEN [lines EXCEPT ![1] = << "two" >>]
        ELSE IF d.form = "wordrow" THEN [lines EXCEPT ![3] = << "0.0", " ", "one" >>]
        ELSE lines

FileText(d) ==
    LET whole == CSPFile(d.kind, d.meta, FormDomainLines(d), FormTableLines(d))
        head  == Unlines(<< << "CSPLUTV100" >>, << d.kind >> >>)
    IN  CASE d.form = "empty" -> << >>
          [] d.form = "blank" -> << "\n", " ", "\n", " ", " ", "\n" >>
          [] d.form = "magic" -> << "CSPLUTV10" >> \o Tail(whole)
          [] d.form = "magic2" -> << "CSPLUTV100", " ", "x" >> \o Tail(whole)
          [] d.form = "nomagic" -> Tail(Tail(whole))
          [] d.form = "indent" -> << " ", "\n", " " >> \o whole
          [] d.form = "headeronly" -> << "CSPLUTV100", "\n" >>
          [] d.form = "badheaderonly" -> << "x", "\n" >>
          [] d.form = "kindonly" -> head
          [] d.form = "shortdomain" ->
                head \o Unlines(d.meta) \o Unlines(SubSeq(FormDomainLines(d), 1, 5))
          [] d.form = "notable" ->
                head \o Unlines(d.meta) \o Unlines(FormDomainLines(d))
          [] OTHER -> whole

\* every triple of counts, under both kinds; and every style with a table
\* of two and of three rows
DomainFiles ==
    {Desc(kind, TitleBlock, "ramp", count, NoDev, SizeOf(kind, 2), 2) :
        kind \in Kinds, count \in Counts}
    \cup
    {Desc(kind, TitleBlock, style, count, NoDev, SizeOf(kind, n), n) :
        kind \in Kinds, style \in Styles,
        count \in {<< 2, 2, 2 >>, << 3, 3, 3 >>, << 1, 2, 2 >>}, n \in {2, 3}}

\* rows that are shorter or longer than the count their channel declares
DevFiles ==
    {Desc(kind, TitleBlock, style, count, dev, SizeOf(kind, 2), 2) :
        kind \in Kinds, style \in {"unit", "ramp"},
        count \in {<< 2, 2, 2 >>, << 3, 3, 3 >>, << 2, 3, 2 >>},
        dev \in {<< -1, 0, 0 >>, << 0, 0, -1 >>, << 0, 1, 0 >>, << 1, 0, 0 >>,
                 << 1, 1, 1 >>}}

\* every shape of table, with as many rows as the size line says, one
\* fewer and one more
TableFiles ==
    {Desc(kind, TitleBlock, style, << 2, 2, 2 >>, NoDev, size, Prod(size) + d) :
        kind \in Kinds, style \in {"unit", "ramp"}, size \in Shapes,
        d \in {-1, 0, 1}}
    \cup
    {Desc(kind, TitleBlock, style, << 2, 2, 2 >>, NoDev, size, Prod(size)) :
        kind \in Kinds, style \in {"unit", "ramp"},
        size \in {<< 2 >>, << 3 >>, << 2, 2 >>, << 2, 1, 1, 1 >>}}

MetaFiles ==
    {Desc(kind, meta, style, << 2, 2, 2 >>, NoDev, SizeOf(kind, 2), 2) :
        kind \in Kinds, meta \in MetaBlocks, style \in {"unit", "ramp"}}

\* the forms of a file that is not laid out as CSPFile lays it out
Forms ==
    {"empty", "blank", "magic", "magic2", "nomagic", "indent", "headeronly",
     "badheaderonly", "kindonly", "shortdomain", "notable", "floatcount",
     "wordcount", "wordrow", "nosize"}

\* kind lines that are not "1D" or "3D"
BadKinds == {"2D", "3d", "1D3D", "CSPLUTV100"}

\* files of every form, and files with another kind line, with a good and
\* with a bad header line
FormFiles ==
    {Formed(Desc(kind, TitleBlock, style, << 2, 2, 2 >>, NoDev, SizeOf(kind, 2), 2),
            form) : kind \in Kinds, style \in {"unit", "ramp"}, form \in Forms}
    \cup
    {Formed(Desc(kind, TitleBlock, "unit", << 2, 2, 2 >>, NoDev, << 2 >>, 2), form) :
        kind \in BadKinds, form \in {"csp", "magic", "indent", "kindonly"}}

\* tables of kind 1D after a block of shaper samples: the two rows of the
\* range from 0.0 to 1.0, and rows of one number
RangeFiles ==
    {Formed(Desc("1D", TitleBlock, style, count, NoDev, << 2 >>, 2), "identity") :
        style \in Styles, count \in {<< 2, 2, 2 >>, << 3, 3, 3 >>, << 1, 2, 2 >>}}
    \cup
    {Formed(Desc("1D", TitleBlock, style, << 2, 2, 2 >>, NoDev, << n >>, n), "singles") :
        style \in {"unit", "ramp"}, n \in {2, 3}}

Files ==
    DomainFiles \cup DevFiles \cup TableFiles \cup MetaFiles \cup FormFiles
        \cup RangeFiles

\* ------------------------------------------------------------------------
\* The program: calls of the reader and of the writer on a file system
\* ------------------------------------------------------------------------

VARIABLES
    fs,          \* path -> whether a file is there, and its text
    wcall,       \* the last call of write_LUT_Cinespace and its outcome
    rcall,       \* the last call of read_LUT_Cinespace, the text of the
                 \* file it read, its non-blank lines and its outcome
    origin,      \* path -> where the file there comes from
    placed,      \* what the file that was put at p1 is made of
    writebacks   \* how many values that were read have been written again

vars == << fs, wcall, rcall, origin, placed, writebacks >>

Paths == {"p1", "p2"}

NoFile == [exists |-> FALSE, text |-> << >>]

\* kind: "none", "placed" (another program's file), "written" (a write that
\* succeeded; lut is the value written) or "failed" (a write that did not)
NoOrigin == [kind |-> "none", lut |-> NoLUT]

\* the file handles a call has opened, and those of them it has closed by
\* the time it returns or raises
NoHandles == [opened |-> 0, closed |-> 0]

\* a handle opened and left open when the block is left by an error
with_open_NoExit(ended) == [opened |-> 1, closed |-> IF ended THEN 1 ELSE 0]

\* with open(path) as csp_file: the handle is closed when the block is left,
\* whether its body ran to its end or raised
with_open(ended) == [opened |-> 1, closed |-> 1]

\* whether the with block of read_LUT_Cinespace ran to its end: the sections
\* were parsed and the check of the table size, its last statement, passed
BlockEnded(r) ==
    r.locals.parsed
        /\ ~(r.status = "AssertionError" /\ r.msg = "LUT table size is invalid")

NoRead ==
    [called |-> FALSE, path |-> "p1", text |-> << >>, lines |-> << >>,
     status |-> "none",
     msg |-> "", lut |-> NoLUT, locals |-> NoLocals, origin |-> NoOrigin,
     handles |-> NoHandles]

Init ==
    /\ fs = [p \in Paths |-> NoFile]
    /\ wcall = [called |-> FALSE, path |-> "p1", arg |-> NoLUT,
                status |-> "none", opened |-> FALSE, existed |-> FALSE,
                before |-> << >>, after |-> NoLUT, fromRead |-> FALSE,
                source |-> NoRead, handles |-> NoHandles]
    /\ rcall = NoRead
    /\ origin = [p \in Paths |-> NoOrigin]
    /\ placed = NoDesc
    /\ writebacks = 0

Fresh ==
    /\ ~wcall.called
    /\ ~rcall.called
    /\ \A p \in Paths : ~fs[p].exists

\* write_LUT_Cinespace(v, p)
Write(v, p, fromRead) ==
    LET w == write_LUT_Cinespace(v)
    IN  /\ fs' = IF w.opened
                 THEN [fs EXCEPT ![p] = [exists |-> TRUE, text |-> w.text]]
                 ELSE fs
        /\ wcall' = [called |-> TRUE, path |-> p, arg |-> v,
                     status |-> w.status, opened |-> w.opened,
                     existed |-> fs[p].exists, before |-> fs[p].text,
                     after |-> w.after, fromRead |-> fromRead,
                     source |-> IF fromRead THEN rcall ELSE NoRead,
                     handles |-> IF w.opened THEN with_open(w.status = "ok")
                                 ELSE NoHandles]
        /\ origin' = IF w.opened
                     THEN [origin EXCEPT
                              ![p] = [kind |-> IF w.status = "ok"
                                               THEN "written" ELSE "failed",
                                      lut |-> v]]
                     ELSE origin

\* a file that some other program wrote is put at p1
PlaceFile(d) ==
    /\ Fresh
    /\ fs' = [fs EXCEPT !["p1"] = [exists |-> TRUE, text |-> FileText(d)]]
    /\ origin' = [origin EXCEPT !["p1"] = [kind |-> "placed", lut |-> NoLUT]]
    /\ placed' = d
    /\ UNCHANGED << wcall, rcall, writebacks >>

\* the caller writes a value of its own to p1
WriteInput(v) ==
    /\ Fresh
    /\ Write(v, "p1", FALSE)
    /\ UNCHANGED << rcall, placed, writebacks >>

\* read_LUT_Cinespace(p)
ReadLUT(p) ==
    /\ fs[p].exists
    /\ LET r == read_LUT_Cinespace(fs[p].text)
       IN  rcall' = [called |-> TRUE, path |-> p, text |-> fs[p].text,
                     lines |-> StripLines(ReadLines(fs[p].text)),
                     status |-> r.status,
                     msg |-> r.msg, lut |-> r.lut, locals |-> r.locals,
                     origin |-> origin[p],
                     handles |-> with_open(BlockEnded(r))]
    /\ UNCHANGED << fs, wcall, origin, placed, writebacks >>

\* the caller writes the value it has just read to p
WriteBack(p) ==
    /\ rcall.called
    /\ rcall.status = "ok"
    /\ writebacks < MaxWriteBacks
    /\ Write(rcall.lut, p, TRUE)
    /\ writebacks' = writebacks + 1
    /\ UNCHANGED << rcall, placed >>

Next ==
    \/ \E d \in Files : PlaceFile(d)
    \/ \E v \in LUTInputs : WriteInput(v)
    \/ \E p \in Paths : ReadLUT(p)
    \/ \E p \in Paths : WriteBack(p)

Spec == Init /\ [][Next]_vars

\* ------------------------------------------------------------------------
\* Properties
\* ------------------------------------------------------------------------

\* the reader has parsed the three sections of the file it was called on
Parsed == rcall.called /\ rcall.locals.parsed

\* the file read is one that another program wrote, and it holds a whole
\* metadata block
ReadPlacedWithMetadata ==
    /\ rcall.called
    /\ rcall.origin.kind = "placed"
    /\ \E i \in 1..Len(placed.meta) : placed.meta[i] = END_METADATA

\* the domain block that was parsed is 6 x 2 and the value row of each channel
\* is [0, 1]
UnitValueRows ==
    /\ Len(rcall.locals.pre_LUT[1]) = 2
    /\ \A c \in 1..3 : rcall.locals.pre_LUT[2 * c] = << 0, One >>

\* the file is of kind 1D, its value rows are not those of the unit block
\* and its table is 2 x 3: the table is read as a range, not as samples
TableIsRange ==
    /\ ~rcall.locals.is_3D
    /\ ~UnitValueRows
    /\ Len(rcall.locals.table) = 2
    /\ Len(rcall.locals.table[1]) = 3

\* the number of entries of the table that a read returned
TableEntries(v) ==
    LET l == v.elems[Len(v.elems)]
    IN  IF l.cls = "LUT3D"
        THEN Len(l.table) * Len(l.table[1]) * Len(l.table[1][1])
        ELSE Len(l.table)

\* C5: whenever the product of the integers of the size line differs from
\* the number of table rows after it, read_LUT_Cinespace fails with the
\* table-size error and returns no LUT; a LUT that is returned holds every
\* row of the file and no other: no row is dropped and none is added
\* (but for the two rows of a kind 1D file that are read as a range).
C5_TableSizeMismatchRejected ==
    /\ (Parsed /\ Prod(rcall.locals.size) # Len(rcall.locals.table))
          => /\ rcall.status = "AssertionError"
             /\ rcall.msg = "LUT table size is invalid"
             /\ rcall.lut = NoLUT
    /\ (Parsed /\ ReadPlacedWithMetadata)
          => /\ rcall.locals.size = placed.size
             /\ Len(rcall.locals.table) = placed.rows
    /\ (Parsed /\ rcall.status = "ok" /\ ~TableIsRange)
          => TableEntries(rcall.lut) = Len(rcall.locals.table)

\* a file whose size line is 2 2 2 and that holds 7 rows was refused
C5_Witness ==
    /\ Parsed
    /\ ReadPlacedWithMetadata
    /\ placed.size = << 2, 2, 2 >>
    /\ placed.rows = 7
    /\ rcall.status = "AssertionError"
    /\ rcall.msg = "LUT table size is invalid"
    /\ rcall.lut = NoLUT

\* the value handed to the writer is one of the five it takes
Writable(v) ==
    IF v.seq
    THEN /\ Len(v.elems) = 2
         /\ v.elems[1].cls \in {"LUT1D", "LUT3x1D"}
         /\ v.elems[2].cls = "LUT3D"
    ELSE /\ Len(v.elems) = 1
         /\ v.elems[1].cls \in {"LUT1D", "LUT3x1D", "LUT3D"}

\* the halves that the caller supplied
SuppliesShaper(v) == v.elems[1].cls \in {"LUT1D", "LUT3x1D"}

SuppliesCube(v) == v.elems[Len(v.elems)].cls = "LUT3D"

SuppliedShaper(v) == v.elems[1]

SuppliedCube(v) == v.elems[Len(v.elems)]

\* the writer refused the value before it opened the file
RejectedBeforeOpen ==
    /\ wcall.status = "AssertionError"
    /\ ~wcall.opened
    /\ fs[wcall.path] = [exists |-> wcall.existed, text |-> wcall.before]

\* C7: write_LUT_Cinespace checks the shaper size against [2, 65536] and the
\* cube size against [2, 256] for the halves the caller supplied and for
\* no other: a value is refused for its size exactly when a half that was
\* supplied is out of its range, so the placeholder half of a bare LUT,
\* whatever its size, never causes a rejection.
C7_OnlySuppliedHalvesSizeChecked ==
    (wcall.called /\ Writable(wcall.arg))
        => (RejectedBeforeOpen
              <=> \/ /\ SuppliesShaper(wcall.arg)
                     /\ LUT_size(SuppliedShaper(wcall.arg))
                            \notin ShaperSizeMin..ShaperSizeMax
                  \/ /\ SuppliesCube(wcall.arg)
                     /\ LUT_size(SuppliedCube(wcall.arg))
                            \notin CubeSizeMin..CubeSizeMax)

\* a bare LUT3D was written, though the placeholder shaper is out of the
\* range of shapers
C7_Witness ==
    /\ wcall.called
    /\ ~wcall.arg.seq
    /\ Len(wcall.arg.elems) = 1
    /\ wcall.arg.elems[1].cls = "LUT3D"
    /\ LUT_size(DefaultLUT3x1D) \notin ShaperSizeMin..ShaperSizeMax
    /\ wcall.opened
    /\ wcall.status = "ok"

\* the size line holds the three axes of a cube of as many rows as the
\* file has, each of three numbers
CubeSized ==
    /\ Len(rcall.locals.size) >= 3
    /\ rcall.locals.size[1] * rcall.locals.size[2] * rcall.locals.size[3]
          = Len(rcall.locals.table)
    /\ Len(rcall.locals.table) > 0
    /\ \A r \in 1..Len(rcall.locals.table) : Len(rcall.locals.table[r]) = 3

\* the one LUT that a read returned
TheLUT == rcall.lut.elems[1]

ReturnedBare(cls) ==
    /\ rcall.status = "ok"
    /\ ~rcall.lut.seq
    /\ Len(rcall.lut.elems) = 1
    /\ TheLUT.cls = cls

\* row c of the domain of the 6 x 2 block: the first row of every channel
BlockDomain ==
    [m \in 1..2 |-> [c \in 1..3 |-> rcall.locals.pre_LUT[2 * c - 1][m]]]

\* entry [i][j][k] of the cube is table row i + Nr * j + Nr * Ng * k
CubeOfRows(cube) ==
    LET size == rcall.locals.size
    IN  /\ Len(cube) = size[1]
        /\ \A i \in 1..size[1] :
            /\ Len(cube[i]) = size[2]
            /\ \A j \in 1..size[2] :
                /\ Len(cube[i][j]) = size[3]
                /\ \A k \in 1..size[3] :
                    cube[i][j][k] =
                        rcall.locals.table[(i - 1) + size[1] * (j - 1)
                                + size[1] * size[2] * (k - 1) + 1]

\* the reader worked on what the file holds: its title and comment lines,
\* the rows of its domain section, padded with NaN to the largest count, its
\* size line and its table rows
ParsedTheFile ==
    LET n == SetMax({placed.count[c] : c \in 1..3})
    IN  /\ placed.meta = TitleBlock
            => /\ rcall.locals.title = << "t" >>
               /\ rcall.locals.comments = << << "c" >> >>
        /\ rcall.locals.is_3D = (placed.kind = "3D")
        /\ \A c \in 1..3 :
            /\ rcall.locals.pre_LUT[2 * c - 1]
                 = PadNaN(DomainRow(placed.style, placed.count[c] + placed.dev[c], c), n)
            /\ rcall.locals.pre_LUT[2 * c]
                 = PadNaN(ValueRow(placed.style, placed.count[c] + placed.dev[c], c), n)
        /\ rcall.locals.size = placed.size
        /\ rcall.locals.table = FormRowValues(placed)

\* C8: when the kind is 3D and the domain block is 6 x 2 with the value rows
\* of the three channels equal to [0, 1], read_LUT_Cinespace returns a single
\* LUT3D, never a LUTSequence: its name is the title, its comments are the
\* comment lines, its domain is [[Rmin, Gmin, Bmin], [Rmax, Gmax, Bmax]]
\* taken from the first row of each channel block, and entry [i][j][k] of its
\* table is the table row i + Nr * j + Nr * Ng * k of the file.
C8_UnitBlock3DReadsAsLUT3D ==
    /\ (Parsed /\ ReadPlacedWithMetadata) => ParsedTheFile
    /\ (Parsed /\ rcall.locals.is_3D /\ UnitValueRows /\ CubeSized)
          => /\ ReturnedBare("LUT3D")
             /\ TheLUT.name = rcall.locals.title
             /\ TheLUT.comments = rcall.locals.comments
             /\ TheLUT.domain = BlockDomain
             /\ CubeOfRows(TheLUT.table)

C8_Witness ==
    /\ Parsed
    /\ ReadPlacedWithMetadata
    /\ placed.kind = "3D"
    /\ UnitValueRows
    /\ placed.size = << 2, 1, 2 >>
    /\ ReturnedBare("LUT3D")
    /\ TheLUT.table[2][1][1] = FileRowValues("3D", 4)[2]
    /\ TheLUT.table[1][1][2] = FileRowValues("3D", 4)[3]

\* C9: when the kind is 1D and the domain block is 6 x 2 with the value rows
\* of the three channels equal to [0, 1], read_LUT_Cinespace returns a single
\* LUT3x1D: its name is the title, its comments are the comment lines, its
\* domain is [[Rmin, Gmin, Bmin], [Rmax, Gmax, Bmax]] and its table is the
\* table rows of the file, in their order.
C9_UnitBlock1DReadsAsLUT3x1D ==
    /\ (Parsed /\ ReadPlacedWithMetadata /\ placed.kind = "1D")
          => /\ ParsedTheFile
             /\ (rcall.status = "ok" /\ UnitValueRows)
                   => TheLUT.table = FormRowValues(placed)
    /\ (Parsed /\ ~rcall.locals.is_3D /\ UnitValueRows
            /\ Prod(rcall.locals.size) = Len(rcall.locals.table))
          => /\ ReturnedBare("LUT3x1D")
             /\ TheLUT.name = rcall.locals.title
             /\ TheLUT.comments = rcall.locals.comments
             /\ TheLUT.domain = BlockDomain
             /\ TheLUT.table = rcall.locals.table

C9_Witness ==
    /\ Parsed
    /\ ReadPlacedWithMetadata
    /\ placed.kind = "1D"
    /\ placed.rows = 3
    /\ UnitValueRows
    /\ ReturnedBare("LUT3x1D")
    /\ TheLUT.name = << "t" >>
    /\ TheLUT.domain = << << 0, 0, 0 >>, << 2, 2, 2 >> >>

\* the rows of one kind of the domain block, one column for each channel
\* (first = 1: the domain rows; first = 2: the value rows)
BlockColumns(first) ==
    [j \in 1..Len(rcall.locals.pre_LUT[1]) |->
        [c \in 1..3 |-> rcall.locals.pre_LUT[2 * (c - 1) + first][j]]]

\* C10: when the kind is 3D and the domain block is not the unit block,
\* read_LUT_Cinespace returns a LUTSequence of two: a LUT3x1D named
\* "<title> - Shaper", column c of whose domain is the domain row of channel
\* c and column c of whose table is its value row, then a LUT3D named
\* "<title> - Cube" (it carries the comments) whose table is the table rows
\* of the file reshaped to (Nr, Ng, Nb, 3), the first axis varying fastest.
C10_NonUnit3DReadsAsShaperAndCube ==
    /\ (Parsed /\ ReadPlacedWithMetadata /\ placed.kind = "3D") => ParsedTheFile
    /\ (Parsed /\ rcall.locals.is_3D /\ ~UnitValueRows /\ CubeSized)
          => /\ rcall.status = "ok"
             /\ rcall.lut.seq
             /\ Len(rcall.lut.elems) = 2
             /\ rcall.lut.elems[1].cls = "LUT3x1D"
             /\ rcall.lut.elems[1].name
                    = rcall.locals.title \o << " ", "-", " ", "Shaper" >>
             /\ rcall.lut.elems[1].domain = BlockColumns(1)
             /\ rcall.lut.elems[1].table = BlockColumns(2)
             /\ rcall.lut.elems[2].cls = "LUT3D"
             /\ rcall.lut.elems[2].name
                    = rcall.locals.title \o << " ", "-", " ", "Cube" >>
             /\ rcall.lut.elems[2].comments = rcall.locals.comments
             /\ CubeOfRows(rcall.lut.elems[2].table)

C10_Witness ==
    /\ Parsed
    /\ ReadPlacedWithMetadata
    /\ placed.kind = "3D"
    /\ placed.style = "ramp"
    /\ placed.count = << 2, 3, 1 >>
    /\ placed.dev = NoDev
    /\ rcall.status = "ok"
    /\ rcall.lut.seq
    /\ rcall.lut.elems[1].name = << "t", " ", "-", " ", "Shaper" >>
    /\ rcall.lut.elems[1].domain
          = << << 0, 1, 2 >>, << 2, 3, NaN >>, << NaN, 5, NaN >> >>
    /\ rcall.lut.elems[2].name = << "t", " ", "-", " ", "Cube" >>

\* the three axes of a cube
Axes(l) == << Len(l.table), Len(l.table[1]), Len(l.table[1][1]) >>

\* C6: write_LUT_Cinespace of a LUT3D, bare or second of a sequence, of which
\* any of the three axes is below 2 or above 256 fails before the file is
\* opened: a path that did not exist before the call does not exist after.
C6_AnyAxisOutOfRangeRejected ==
    (/\ wcall.called
     /\ Writable(wcall.arg)
     /\ SuppliesCube(wcall.arg)
     /\ \E a \in 1..3 :
            Axes(SuppliedCube(wcall.arg))[a] \notin CubeSizeMin..CubeSizeMax)
        => RejectedBeforeOpen

\* the value whose write produced the file that was read
Written == rcall.origin.lut

\* the file read is one that a write of a bare LUT3x1D or LUT3D produced
ReadWrittenBare ==
    /\ rcall.called
    /\ rcall.origin.kind = "written"
    /\ ~Written.seq
    /\ Written.elems[1].cls \in {"LUT3x1D", "LUT3D"}

\* C3: for a bare LUT3x1D or LUT3D that is written and then read, the name
\* returned equals the name written, the empty name included, and the
\* comments returned are the comments written, in the same order.
C3_NameAndCommentsPreserved ==
    ReadWrittenBare
        => /\ rcall.status = "ok"
           /\ ~rcall.lut.seq
           /\ TheLUT.name = Written.elems[1].name
           /\ TheLUT.comments = Written.elems[1].comments

\* the lines of the file that the last write produced, as a reader of
\* lines sees them: trimmed, the blank ones left out
WrittenLines == StripLines(ReadLines(fs[wcall.path].text))

\* the numbers of a row as the writer's precision spells them
Rounded(a) == [j \in 1..Len(a) |-> Round(a[j])]

\* the value written is the one read from a file of kind 3D, put there by
\* another program, of which the channels declare the counts of the file
\* and hold as many samples
WroteBackShaperFile ==
    /\ wcall.called
    /\ wcall.fromRead
    /\ wcall.source.origin.kind = "placed"
    /\ placed.kind = "3D"
    /\ placed.meta = TitleBlock
    /\ placed.dev = NoDev

\* the shaper read from the file: the samples of each channel, then NaN up
\* to the largest count
PaddedShaper(l) ==
    LET n == SetMax({placed.count[c] : c \in 1..3})
    IN  /\ l.domain = [j \in 1..n |-> [c \in 1..3 |->
                PadNaN(DomainRow(placed.style, placed.count[c], c), n)[j]]]
        /\ l.table = [j \in 1..n |-> [c \in 1..3 |->
                PadNaN(ValueRow(placed.style, placed.count[c], c), n)[j]]]

\* the nine lines after the metadata block are those of the file read, to
\* the writer's precision
DomainSectionRewritten ==
    LET lines == WrittenLines
    IN  /\ Len(lines) >= 15
        /\ lines[6] = END_METADATA
        /\ \A c \in 1..3 :
            /\ lines[4 + 3 * c] = << IntStr(placed.count[c]) >>
            /\ lines[5 + 3 * c]
                 = NumeralRow(Rounded(DomainRow(placed.style, placed.count[c], c)))
            /\ lines[6 + 3 * c]
                 = NumeralRow(Rounded(ValueRow(placed.style, placed.count[c], c)))

\* C4: for a file of kind 3D whose three channels declare different shaper
\* lengths (cR, cG, cB), the read pads every shaper row to the largest of
\* them, and writing the value read back emits the count lines cR, cG, cB
\* with the cR, cG, cB domain and value entries of the file, not the padded
\* length for every channel.
C4_RaggedShaperWrittenBack ==
    (/\ WroteBackShaperFile
     /\ \E c \in 1..3 : placed.count[c] # placed.count[1])
        => /\ wcall.arg.seq
           /\ PaddedShaper(wcall.arg.elems[1])
           /\ wcall.status = "ok"
           /\ DomainSectionRewritten

\* an array of the given depth, every number as the writer's precision
\* spells it
RECURSIVE RoundDeep(_, _)
RoundDeep(x, depth) ==
    IF depth = 0 THEN Round(x)
    ELSE [i \in 1..Len(x) |-> RoundDeep(x[i], depth - 1)]

\* whether an array of the given depth holds a NaN
RECURSIVE HasNaN(_, _)
HasNaN(x, depth) ==
    IF depth = 0 THEN IsNaN(x)
    ELSE \E i \in 1..Len(x) : HasNaN(x[i], depth - 1)

DomainDepth(cls) == IF cls = "LUT1D" THEN 1 ELSE 2

TableDepth(cls) == IF cls = "LUT1D" THEN 1 ELSE IF cls = "LUT3D" THEN 4 ELSE 2

\* the same class, and the same numbers up to the precision
SameNumbers(got, l) ==
    /\ got.cls = l.cls
    /\ got.domain = RoundDeep(l.domain, DomainDepth(l.cls))
    /\ got.table = RoundDeep(l.table, TableDepth(l.cls))

\* the value read is the value written: the same shape and, element by
\* element, the same numbers up to the precision, the same name and the
\* same comments
EqualLUT(got, v) ==
    /\ got.seq = v.seq
    /\ Len(got.elems) = Len(v.elems)
    /\ \A e \in 1..Len(v.elems) :
        /\ SameNumbers(got.elems[e], v.elems[e])
        /\ got.elems[e].name = v.elems[e].name
        /\ got.elems[e].comments = v.elems[e].comments

NoEndMarker(l) ==
    /\ Strip(l.name) # END_METADATA
    /\ \A i \in 1..Len(l.comments) : Strip(l.comments[i]) # END_METADATA

OneMetadataBlock(d) ==
    /\ Len(d.meta) >= 2
    /\ d.meta[1] = BEGIN_METADATA
    /\ d.meta[Len(d.meta)] = END_METADATA
    /\ \A i \in 2..(Len(d.meta) - 1) :
          d.meta[i] \notin {BEGIN_METADATA, END_METADATA}

\* a well-formed file: one metadata block, channels that hold as many
\* samples as they declare, a size line of one integer (kind 1D) or of three
\* (kind 3D) and as many table rows as it says
WellFormed(d) ==
    /\ OneMetadataBlock(d)
    /\ d.dev = NoDev
    /\ Len(d.size) = (IF d.kind = "3D" THEN 3 ELSE 1)
    /\ Prod(d.size) = d.rows

\* the value written is the one read from a well-formed file that another
\* program put there
WroteBackFile ==
    /\ wcall.called
    /\ wcall.fromRead
    /\ wcall.source.origin.kind = "placed"
    /\ WellFormed(placed)

\* the lines of a file like d, with the given title, its numbers at the
\* writer's precision, as a reader of lines sees them: trimmed, the blank
\* ones left out
LinesLike(d, title) ==
    LET Block(c) ==
            << << IntStr(d.count[c]) >>,
               NumeralRow(Rounded(DomainRow(d.style, d.count[c], c))),
               NumeralRow(Rounded(ValueRow(d.style, d.count[c], c))) >>
        all ==
            << << "CSPLUTV100" >>, << d.kind >>, BEGIN_METADATA, Strip(title) >>
                \o SubSeq(d.meta, 3, Len(d.meta) - 1) \o << END_METADATA >>
                \o Block(1) \o Block(2) \o Block(3)
                \o << IntRowText(d.size) >>
                \o [r \in 1..d.rows |->
                        NumeralRow(Rounded(FormRowValues(d)[r]))]
    IN  SelectSeq(all, LAMBDA line : line # << >>)

FileTitle(d) == IF Len(d.meta) > 2 THEN d.meta[2] ELSE << >>

UnitBlockFile(d) ==
    /\ d.count = << 2, 2, 2 >>
    /\ \A c \in 1..3 : ValueRow(d.style, 2, c) = << 0, One >>

\* the channels of the file of kind 3D declare the same count, 2 at least,
\* and the block is not the unit block
EvenShaperFile(d) ==
    /\ d.kind = "3D"
    /\ ~UnitBlockFile(d)
    /\ d.count[1] >= ShaperSizeMin
    /\ d.count[2] = d.count[1]
    /\ d.count[3] = d.count[1]

\* the table is of a size that the writer takes
TableWritable(d) ==
    IF d.kind = "3D" THEN d.size[1] \in CubeSizeMin..CubeSizeMax
    ELSE d.rows \in ShaperSizeMin..ShaperSizeMax

Read1DWithShaper ==
    /\ Parsed
    /\ ~rcall.locals.is_3D
    /\ ~UnitValueRows
    /\ TableSizeValid(rcall.locals.size, rcall.locals.table)

\* the read returned the two stages named after the title, the block of the
\* file first and its table second
ReturnedPreLUTAndTable ==
    /\ rcall.status = "ok"
    /\ rcall.lut.seq
    /\ Len(rcall.lut.elems) = 2
    /\ rcall.lut.elems[1].cls = "LUT3x1D"
    /\ rcall.lut.elems[2].cls = "LUT3x1D"
    /\ rcall.lut.elems[1].name
          = rcall.locals.title \o << " ", "-", " ", "PreLUT" >>
    /\ rcall.lut.elems[2].name
          = rcall.locals.title \o << " ", "-", " ", "Table" >>

\* C11: when the kind is 1D and the domain block is not the 6 x 2 unit block,
\* read_LUT_Cinespace returns a single LUT3x1D exactly when the table of the
\* file has exactly 2 rows; with any other number of rows it returns a
\* LUTSequence of two LUT3x1D named "<title> - PreLUT" and "<title> - Table".
C11_TwoRowTableReadsAsSingleLUT ==
    Read1DWithShaper
        => IF Len(rcall.locals.table) = 2
           THEN ReturnedBare("LUT3x1D")
           ELSE ReturnedPreLUTAndTable

\* the same, for the tables whose rows hold three numbers
C11_TwoRowsOfThreeReadAsSingleLUT ==
    (Read1DWithShaper
        /\ \A r \in 1..Len(rcall.locals.table) : Len(rcall.locals.table[r]) = 3)
        => IF Len(rcall.locals.table) = 2
           THEN ReturnedBare("LUT3x1D")
           ELSE ReturnedPreLUTAndTable

\* a table of two rows of three numbers after a block of other samples was
\* read as a single LUT3x1D
C11_Witness ==
    /\ Read1DWithShaper
    /\ placed.style = "ramp"
    /\ placed.form = "csp"
    /\ rcall.locals.table = FileRowValues("1D", 2)
    /\ ReturnedBare("LUT3x1D")

\* the table of the file is two rows of three numbers: the range
ParsedRange ==
    /\ Read1DWithShaper
    /\ Len(rcall.locals.table) = 2
    /\ \A r \in 1..2 : Len(rcall.locals.table[r]) = 3

\* C12: in the degenerate case of kind 1D (a non-unit block and a table of
\* two rows), entry [j][c] of the table of the LUT3x1D returned is
\* shaper_value[j][c] * (row1[c] - row0[c]) + row0[c], where row0 and row1
\* are the two table rows of the file (a sample that a shorter channel lacks
\* stays NaN); with the rows [0, 0, 0] and [1, 1, 1] the table is the shaper
\* value rows unchanged; and the domain returned is the shaper domain.
C12_RangeRescalesShaperValues ==
    ParsedRange
        => /\ ReturnedBare("LUT3x1D")
           /\ TheLUT.domain = BlockColumns(1)
           /\ Len(TheLUT.table) = Len(BlockColumns(2))
           /\ \A j \in 1..Len(TheLUT.table) : \A c \in 1..3 :
                LET value == BlockColumns(2)[j][c]
                    row0  == rcall.locals.table[1]
                    row1  == rcall.locals.table[2]
                IN  IF IsNaN(value) THEN IsNaN(TheLUT.table[j][c])
                    ELSE One * TheLUT.table[j][c]
                            = value * (row1[c] - row0[c]) + One * row0[c]
           /\ rcall.locals.table = << << 0, 0, 0 >>, << One, One, One >> >>
                => TheLUT.table = BlockColumns(2)

\* three samples a channel were rescaled to the range of the two table rows
\* 0.0 0.0 1.0 and 1.0 2.0 1.0
C12_Witness ==
    /\ ParsedRange
    /\ rcall.origin.kind = "placed"
    /\ placed.style = "ramp"
    /\ placed.count = << 3, 3, 3 >>
    /\ BlockColumns(2)[2] = << Pat(3), Pat(4), Pat(5) >>
    /\ rcall.locals.table = << << 0, 0, One >>, << One, 2 * One, One >> >>
    /\ ReturnedBare("LUT3x1D")
    /\ TheLUT.table[2] = << Pat(3), 2 * Pat(4), One >>
    /\ TheLUT.domain = BlockColumns(1)

\* the range from 0.0 to 1.0 left the shaper values as they were
C12_IdentityRangeRead ==
    /\ ParsedRange
    /\ placed.form = "identity"
    /\ placed.style = "ramp"
    /\ ReturnedBare("LUT3x1D")
    /\ TheLUT.table = BlockColumns(2)
    /\ TheLUT.table[2] = << Pat(3), Pat(4), Pat(5) >>

\* the non-blank lines of the file that the last read was called on, trimmed
LinesRead == rcall.lines

\* the read failed with the assertion whose message is msg, and returned no
\* LUT
FormatError(msg) ==
    /\ rcall.status = "AssertionError"
    /\ rcall.msg = msg
    /\ rcall.lut = NoLUT

\* C13: read_LUT_Cinespace fails with the invalid-header error, and returns
\* no LUT, whenever the first non-blank trimmed line of the file is not
\* exactly CSPLUTV100, whatever the rest of the file holds: the header is
\* checked before the kind line and before anything else is parsed.
C13_BadHeaderRejected ==
    (rcall.called /\ Len(LinesRead) >= 1 /\ LinesRead[1] # << "CSPLUTV100" >>)
        => FormatError("LUT header is invalid")

\* a file whose header line is wrong and whose kind line is wrong too was
\* rejected for its header
C13_Witness ==
    /\ rcall.called
    /\ rcall.origin.kind = "placed"
    /\ placed.form = "magic"
    /\ placed.kind = "2D"
    /\ LinesRead[1] = << "CSPLUTV10" >>
    /\ LinesRead[2] = << "2D" >>
    /\ FormatError("LUT header is invalid")

\* C14: read_LUT_Cinespace fails with the invalid-kind error, and returns no
\* LUT, whenever the header is valid and the second non-blank trimmed line
\* of the file is anything other than exactly 1D or 3D.
C14_BadKindRejected ==
    (rcall.called /\ Len(LinesRead) >= 2
        /\ LinesRead[1] = << "CSPLUTV100" >>
        /\ LinesRead[2] \notin {<< "1D" >>, << "3D" >>})
        => FormatError("LUT type must be 1D or 3D")

\* a file that is well formed but for its kind line, 3d, was rejected for
\* its kind
C14_Witness ==
    /\ rcall.called
    /\ rcall.origin.kind = "placed"
    /\ placed.form = "csp"
    /\ LinesRead[1] = << "CSPLUTV100" >>
    /\ LinesRead[2] = << "3d" >>
    /\ Len(LinesRead) > 2
    /\ FormatError("LUT type must be 1D or 3D")

\* C15: read_LUT_Cinespace fails with the error of an empty LUT whenever the
\* sequence of non-empty trimmed lines is empty: for a file of length zero
\* and for a file that holds only blank or whitespace-only lines alike.
C15_NoLinesRejectedAsEmpty ==
    (rcall.called /\ LinesRead = << >>) => FormatError("LUT is empty")

\* a file of length zero was rejected as empty
C15_ZeroLengthRejected ==
    /\ rcall.called
    /\ rcall.text = << >>
    /\ FormatError("LUT is empty")

\* a file of blank lines only made the read fail on lines[0]
C15_BlankFileIndexError ==
    /\ rcall.called
    /\ rcall.text # << >>
    /\ LinesRead = << >>
    /\ rcall.status = "IndexError"

\* the file read has a valid header and kind line and no line that opens or
\* closes a metadata block; the nine lines after its kind line are a domain
\* section and the lines after them a table of as many rows as its size line
\* says
NoMetadataFile ==
    /\ rcall.called
    /\ Len(LinesRead) >= 2
    /\ LinesRead[1] = << "CSPLUTV100" >>
    /\ LinesRead[2] \in {<< "1D" >>, << "3D" >>}
    /\ \A i \in 1..Len(LinesRead) :
            LinesRead[i] \notin {BEGIN_METADATA, END_METADATA}
    /\ parse_domain_section(Slice(LinesRead, 2, 11)).status = "ok"
    /\ LET tab == parse_table_section(Slice(LinesRead, 11, Len(LinesRead)))
       IN  /\ tab.status = "ok"
           /\ TableSizeValid(tab.size, tab.table)
           /\ LinesRead[2] = << "3D" >> => CanReshapeF(tab.table, tab.size)

\* C16: a file with no BEGIN METADATA / END METADATA block is read without
\* error: the title is the empty string, the comments are empty, and the
\* nine lines of the domain section are the lines that immediately follow
\* the kind line.
C16_NoMetadataFileRead ==
    NoMetadataFile
        => /\ rcall.status = "ok"
           /\ rcall.locals.title = << >>
           /\ rcall.locals.comments = << >>
           /\ rcall.locals.pre_LUT
                = parse_domain_section(Slice(LinesRead, 2, 11)).pre

\* a well-formed file with no metadata block made the read fail on the
\* first row of its domain section, taken for a count
C16_NoMetadataFileFails ==
    /\ NoMetadataFile
    /\ rcall.origin.kind = "placed"
    /\ placed.meta = << >>
    /\ rcall.status = "ValueError"
    /\ rcall.msg = "domain"

\* the path of the last write was not opened: it holds what it held
PathUntouched ==
    /\ ~wcall.opened
    /\ fs[wcall.path] = [exists |-> wcall.existed, text |-> wcall.before]

\* C17: write_LUT_Cinespace rejects with a TypeError, before the file is
\* opened, every LUTSequence that is not exactly (LUT1D or LUT3x1D, LUT3D) -
\* two cubes, two shapers, a cube then a shaper, three elements - and every
\* value that is not a LUT1D, LUT3x1D, LUT3D or LUTSequence.
C17_UnsupportedValueRaisesTypeError ==
    (wcall.called /\ ~Writable(wcall.arg))
        => (wcall.status = "TypeError" /\ PathUntouched)

\* the same, with the error that each of the two checks raises: the
\* assertion on a LUTSequence, TypeError on a value of another class
C17_UnsupportedValueRejectedBeforeOpen ==
    (wcall.called /\ ~Writable(wcall.arg))
        => /\ PathUntouched
           /\ wcall.status
                = IF wcall.arg.seq THEN "AssertionError" ELSE "TypeError"

\* a LUTSequence of three, a shaper and two cubes, was refused
C17_Witness ==
    /\ wcall.called
    /\ wcall.arg.seq
    /\ Len(wcall.arg.elems) = 3
    /\ wcall.arg.elems[1].cls = "LUT3x1D"
    /\ wcall.arg.elems[2].cls = "LUT3D"
    /\ wcall.status = "AssertionError"
    /\ PathUntouched

\* a value that is no LUT was refused with TypeError
C17_NotALUTRefused ==
    /\ wcall.called
    /\ ~wcall.arg.seq
    /\ wcall.arg.elems[1].cls = "dict"
    /\ wcall.status = "TypeError"
    /\ PathUntouched

\* the two LUT3x1D read from a file of kind 1D were refused, and the file
\* at the path stayed as it was
C17_ReadPairRefused ==
    /\ wcall.called
    /\ wcall.fromRead
    /\ wcall.existed
    /\ wcall.arg.seq
    /\ wcall.arg.elems[2].cls = "LUT3x1D"
    /\ wcall.status = "AssertionError"
    /\ PathUntouched

\* C18: write_LUT_Cinespace never mutates the value of the caller, but for
\* promoting a bare LUT1D: after the call a LUTSequence that the caller
\* passed still holds the same two elements, and every table, domain, name
\* and comment list is unchanged.
C18_CallerValueNotMutated ==
    (wcall.called /\ wcall.arg.seq) => wcall.after = wcall.arg

\* the LUT1D that was the first element of the caller's LUTSequence has been
\* replaced in it by a LUT3x1D
C18_SequenceElementReplaced ==
    /\ wcall.called
    /\ wcall.arg.seq
    /\ Len(wcall.arg.elems) = 2
    /\ wcall.arg.elems[1].cls = "LUT1D"
    /\ wcall.after.seq
    /\ wcall.after.elems[1].cls = "LUT3x1D"
    /\ wcall.after.elems[1] = convert_LUT3x1D(wcall.arg.elems[1])
    /\ wcall.after.elems[2] = wcall.arg.elems[2]

\* a bare value of the caller is what it was, a bare LUT1D too
C18_BareValueKept ==
    (wcall.called /\ ~wcall.arg.seq) => wcall.after = wcall.arg

\* the comment lines and the table rows that a file written from v holds
CommentCount(v) ==
    IF v.seq THEN Len(v.elems[1].comments) + Len(v.elems[2].comments)
    ELSE Len(v.elems[1].comments)

RowCount(v) ==
    LET last == v.elems[Len(v.elems)]
    IN  IF last.cls = "LUT3D"
        THEN Len(last.table) * Len(last.table[1]) * Len(last.table[1][1])
        ELSE Len(last.table)

\* the numbers of row r of the table of v: three, as a rule
RowWidth(v, r) ==
    LET last == v.elems[Len(v.elems)]
    IN  IF last.cls \in {"LUT3D", "LUT1D"} THEN 3 ELSE Len(last.table[r])

\* the text is a whole CSP file written from v: the header and kind lines,
\* the metadata block with its two markers, three channel blocks each of a
\* count and two rows of as many numbers, the size line, and as many rows as
\* the size line says, each of the numbers of a row of the table, every line
\* ended
CompleteFile(text, v) ==
    LET L == ReadLines(text)
        m == 5 + CommentCount(v)
        n == RowCount(v)
    IN  /\ Len(L) = m + 13 + n
        /\ \A i \in 1..Len(L) : L[i][Len(L[i])] = "\n"
        /\ L[1] = << "CSPLUTV100", "\n" >>
        /\ L[2] \in {<< "1D", "\n" >>, << "3D", "\n" >>}
        /\ L[4] = BEGIN_METADATA \o << "\n" >>
        /\ L[m + 1] = END_METADATA \o << "\n" >>
        /\ \A c \in 0..2 :
            /\ IsIntLine(Strip(L[m + 3 + 3 * c]))
            /\ \A k \in 1..2 :
                /\ IsFloatRow(Split(L[m + 3 + 3 * c + k]))
                /\ Len(Split(L[m + 3 + 3 * c + k]))
                      = ParseInt(Strip(L[m + 3 + 3 * c])[1])
        /\ IsIntRow(Split(L[m + 13]))
        /\ Len(Split(L[m + 13])) = (IF L[2][1] = "3D" THEN 3 ELSE 1)
        /\ Prod(IntRow(Split(L[m + 13]))) = n
        /\ \A r \in 1..n :
            /\ IsFloatRow(Split(L[m + 13 + r]))
            /\ Len(Split(L[m + 13 + r])) = RowWidth(v, r)

\* C19: after any call of write_LUT_Cinespace, successful or failed, the
\* path either is as it was before the call or holds a whole CSP file: no
\* call that fails leaves a created, truncated or partly written file.
C19_PathUntouchedOrComplete ==
    wcall.called
        => \/ PathUntouched
           \/ /\ wcall.status = "ok"
              /\ fs[wcall.path].exists
              /\ CompleteFile(fs[wcall.path].text, wcall.arg)

\* a write was refused though a file was at the path, and the file is as it
\* was
C19_Witness ==
    /\ wcall.called
    /\ wcall.status # "ok"
    /\ wcall.existed
    /\ fs[wcall.path].exists
    /\ fs[wcall.path].text = wcall.before
    /\ wcall.before # << >>

\* a write succeeded over a file that was at the path
C19_OverwrittenWhole ==
    /\ wcall.called
    /\ wcall.status = "ok"
    /\ wcall.existed
    /\ fs[wcall.path].text # wcall.before
    /\ CompleteFile(fs[wcall.path].text, wcall.arg)

\* a write failed after it had opened the file
C19_FailedAfterOpen ==
    /\ wcall.called
    /\ wcall.opened
    /\ wcall.status # "ok"

\* C20: every file that read_LUT_Cinespace does not accept is rejected with
\* the format error and no LUT is returned - a file cut off after its header
\* line, a file with fewer than nine domain lines, a count line that is not
\* an integer, a domain row longer than the largest count declared, a file
\* of kind 3D whose size line holds fewer than three integers - and no other
\* kind of failure reaches the caller.
C20_EveryRejectionIsFormatError ==
    (rcall.called /\ rcall.status # "ok")
        => (rcall.status = "AssertionError" /\ rcall.lut = NoLUT)

\* a file that ends after its header line made the read fail on lines[1]
C20_HeaderOnlyIndexError ==
    /\ rcall.called
    /\ LinesRead = << << "CSPLUTV100" >> >>
    /\ rcall.status = "IndexError"

\* a file with five domain lines and nothing after them
C20_ShortDomainIndexError ==
    /\ rcall.called
    /\ rcall.origin.kind = "placed"
    /\ placed.form = "shortdomain"
    /\ rcall.status = "IndexError"
    /\ rcall.msg = "domain"

\* a count line 2.0 or two
C20_CountNotIntegerValueError ==
    /\ rcall.called
    /\ rcall.origin.kind = "placed"
    /\ placed.form \in {"floatcount", "wordcount"}
    /\ rcall.status = "ValueError"
    /\ rcall.msg = "domain"

\* a domain row of three numbers where the largest count is two
C20_LongRowValueError ==
    /\ rcall.called
    /\ rcall.origin.kind = "placed"
    /\ placed.form = "csp"
    /\ placed.count = << 2, 2, 2 >>
    /\ placed.dev = << 1, 0, 0 >>
    /\ rcall.status = "ValueError"
    /\ rcall.msg = "domain"

\* a file of kind 3D whose size line holds one or two integers
C20_ShortSizeLineIndexError ==
    /\ Parsed
    /\ rcall.locals.is_3D
    /\ Len(rcall.locals.size) < 3
    /\ TableSizeValid(rcall.locals.size, rcall.locals.table)
    /\ rcall.status = "IndexError"

\* the first END METADATA line after the kind line of the file read, and the
\* first BEGIN METADATA line before it (0 when there is none)
FirstEnd ==
    LET ends == {i \in 3..Len(LinesRead) : LinesRead[i] = END_METADATA}
    IN  IF ends = {} THEN 0 ELSE SetMin(ends)

FirstBegin ==
    LET begs == {i \in 3..(FirstEnd - 1) : LinesRead[i] = BEGIN_METADATA}
    IN  IF begs = {} THEN 0 ELSE SetMin(begs)

\* the file read holds a metadata block, and the read parsed its sections
ReadMetadataBlock == Parsed /\ FirstEnd > 0 /\ FirstBegin > 0

\* the lines strictly between the two markers
BlockLines == SubSeq(LinesRead, FirstBegin + 1, FirstEnd - 1)

\* the title and the comments taken from the lines of a block, and the
\* domain block parsed from the nine lines after the END METADATA line
MetadataIs(lines) ==
    /\ rcall.locals.title = (IF lines = << >> THEN << >> ELSE lines[1])
    /\ rcall.locals.comments = (IF lines = << >> THEN << >> ELSE Tail(lines))
    /\ rcall.locals.pre_LUT
          = parse_domain_section(Slice(LinesRead, FirstEnd, FirstEnd + 9)).pre

\* C21: when a metadata block is present, the title is the first line
\* strictly between BEGIN METADATA and the first END METADATA line, the
\* comments are the remaining lines between them in their order, the scan
\* stops at that first END METADATA, and the domain section is the 9 lines
\* that immediately follow it.
C21_MetadataBlockCaptured ==
    ReadMetadataBlock => MetadataIs(BlockLines)

\* the same, a BEGIN METADATA line met again inside the block being skipped
C21_MetadataBlockCapturedButMarkers ==
    ReadMetadataBlock
        => LET NotBegin(l) == l # BEGIN_METADATA
           IN  MetadataIs(SelectSeq(BlockLines, NotBegin))

\* a block of a title and two comment lines was captured
C21_Witness ==
    /\ ReadMetadataBlock
    /\ BlockLines = << << "t" >>, << "c" >>, << "d", " ", "e" >> >>
    /\ rcall.locals.title = << "t" >>
    /\ rcall.locals.comments = << << "c" >>, << "d", " ", "e" >> >>
    /\ rcall.status = "ok"

\* a block in which BEGIN METADATA stands a second time
C21_SecondBeginSkipped ==
    /\ ReadMetadataBlock
    /\ BlockLines = << << "t" >>, BEGIN_METADATA, << "c" >> >>
    /\ rcall.locals.comments = << << "c" >> >>

\* the nine lines that the reader took for the domain section
DomainSection ==
    LET seek == IF FirstEnd > 0 THEN FirstEnd ELSE 3
    IN  Slice(LinesRead, seek, seek + 9)

\* the three counts that the section declares, and its six rows of numbers
DeclaredCounts ==
    [c \in 1..3 |-> ParseInt(DomainSection[3 * c - 2][1])]

SectionRows ==
    [k \in 1..6 |->
        FloatRow(Split(DomainSection[3 * ((k + 1) \div 2) - 2 + 2 - (k % 2)]))]

\* row k of the block is the row of the file, then NaN up to the width n
PaddedRow(k, n) ==
    LET row == SectionRows[k]
        pad == rcall.locals.pre_LUT[k]
    IN  /\ Len(pad) = n
        /\ Len(row) <= n
        /\ SubSeq(pad, 1, Len(row)) = row
        /\ \A j \in (Len(row) + 1)..n : IsNaN(pad[j])

\* NaN stands in row k only as a suffix, when the line of the file spells
\* none itself
NaNTrailing(k) ==
    LET pad == rcall.locals.pre_LUT[k]
    IN  (\A j \in 1..Len(SectionRows[k]) : ~IsNaN(SectionRows[k][j]))
            => \A j \in 1..Len(pad) :
                IsNaN(pad[j]) => \A i \in j..Len(pad) : IsNaN(pad[i])

RealCube(v) == v.elems[Len(v.elems)].cls = "LUT3D"

\* the last write succeeded and its file is at the path: the header line,
\* the kind line of the value, the metadata block, three channel blocks of
\* three lines, the size line and as many rows as its product
WrittenLayout ==
    LET text == fs[wcall.path].text
    IN  /\ fs[wcall.path].exists
        /\ CompleteFile(text, wcall.arg)
        /\ ReadLines(text)[2][1] = (IF RealCube(wcall.arg) THEN "3D" ELSE "1D")

\* C23: every file that a successful write_LUT_Cinespace produces holds, in
\* this order, the line CSPLUTV100, a kind line that is 3D exactly when a
\* cube was supplied (a bare LUT3D or a sequence) and 1D otherwise, one
\* BEGIN METADATA ... END METADATA block, three channel blocks of three lines
\* each, and a size line whose product is the number of table rows after it;
\* hence read_LUT_Cinespace accepts every file that write_LUT_Cinespace
\* produces.
C23_WrittenFileLaidOutAndAccepted ==
    /\ (wcall.called /\ wcall.status = "ok") => WrittenLayout
    /\ (rcall.called /\ rcall.origin.kind = "written") => rcall.status = "ok"

\* the layout alone
C23_WrittenFileLaidOut ==
    (wcall.called /\ wcall.status = "ok") => WrittenLayout

\* the file written is accepted when no line of its metadata is a marker
C23_AcceptedWithoutMarkerLines ==
    (rcall.called /\ rcall.origin.kind = "written"
        /\ \A i \in 1..Len(rcall.origin.lut.elems) :
                NoEndMarker(rcall.origin.lut.elems[i]))
        => rcall.status = "ok"

\* the file written from a LUT named END METADATA was not accepted
C23_WrittenFileRefused ==
    /\ rcall.called
    /\ rcall.origin.kind = "written"
    /\ ~rcall.origin.lut.seq
    /\ rcall.origin.lut.elems[1].name = END_METADATA
    /\ rcall.origin.lut.elems[1].comments = << >>
    /\ rcall.status = "ValueError"

\* the shaper that the caller supplied, if any: a bare LUT1D or LUT3x1D, or
\* the first element of a sequence
RealShaper(v) ==
    /\ Len(v.elems) >= 1
    /\ v.elems[1].cls \in {"LUT1D", "LUT3x1D"}

\* entry c of a row of a LUT: a LUT1D holds one number for the three channels
Chan(cls, row, c) == IF cls = "LUT1D" THEN row ELSE row[c]

\* the three lines of channel c in the file of the last write: the count line
\* and the words of the two rows
ChannelBlock(c) ==
    LET L == ReadLines(fs[wcall.path].text)
        b == 5 + CommentCount(wcall.arg) + 3 * c
    IN  [count |-> Strip(L[b]), domain |-> Split(L[b + 1]),
         value |-> Split(L[b + 2])]

\* channel c of the file holds the samples of the shaper s: its count, its
\* positions - those given one by one, NaN left out, or min + j * (max - min)
\* / (size - 1) - and its values, at the writer's precision
ShaperBlock(s, c) ==
    LET n    == Len(s.table)
        expl == Len(s.domain) # 2
        cnt  == IF expl
                THEN n - Cardinality({j \in 1..Len(s.domain) :
                                        IsNaN(Chan(s.cls, s.domain[j], c))})
                ELSE n
        lo   == Chan(s.cls, s.domain[1], c)
        hi   == Chan(s.cls, s.domain[2], c)
        blk  == ChannelBlock(c)
    IN  /\ blk.count = << IntStr(cnt) >>
        /\ IsFloatRow(blk.domain) /\ IsFloatRow(blk.value)
        /\ FloatRow(blk.domain)
              = [j \in 1..cnt |->
                    IF expl THEN Round(Chan(s.cls, s.domain[j], c))
                    ELSE IF IsNaN(lo) \/ IsNaN(hi) THEN NaN
                    ELSE RoundQ(lo * (n - 1) + (j - 1) * (hi - lo), n - 1)]
        /\ FloatRow(blk.value)
              = [j \in 1..cnt |-> Round(Chan(s.cls, s.table[j], c))]

\* channel c of the file holds the block of two samples: the two ends of the
\* domain of l and the values 0.0 and 1.0
SyntheticBlock(l, c) ==
    LET blk == ChannelBlock(c)
    IN  /\ blk.count = << "2" >>
        /\ IsFloatRow(blk.domain)
        /\ FloatRow(blk.domain)
              = << Round(Chan(l.cls, l.domain[1], c)),
                   Round(Chan(l.cls, l.domain[2], c)) >>
        /\ blk.value = << << "0.0" >>, << "1.0" >> >>

\* C24: whenever the value written holds a shaper that the caller supplied (a
\* bare LUT1D or LUT3x1D, or the first element of a sequence),
\* write_LUT_Cinespace emits for each of the 3 channels the count line, the
\* domain row and the value row of the shaper, the domain row being the
\* positions given one by one when the domain is explicit and otherwise
\* min + j * (max - min) / (size - 1); the block of two samples is emitted
\* only when no shaper was supplied.
C24_SuppliedShaperWritten ==
    (wcall.called /\ wcall.status = "ok")
        => IF RealShaper(wcall.arg)
           THEN \A c \in 1..3 : ShaperBlock(wcall.arg.elems[1], c)
           ELSE \A c \in 1..3 : SyntheticBlock(wcall.arg.elems[1], c)

\* the same for the shaper of a sequence; a bare LUT, a shaper too, is written
\* with the block of two samples
C24_ShaperOfSequenceWritten ==
    (wcall.called /\ wcall.status = "ok")
        => IF wcall.arg.seq
           THEN \A c \in 1..3 : ShaperBlock(wcall.arg.elems[1], c)
           ELSE \A c \in 1..3 : SyntheticBlock(wcall.arg.elems[1], c)

\* a sequence whose shaper has three samples between 0 0 0 and 1 2 1 was
\* written
C24_Witness ==
    /\ wcall.called
    /\ wcall.status = "ok"
    /\ wcall.arg.seq
    /\ wcall.arg.elems[1].cls = "LUT3x1D"
    /\ wcall.arg.elems[1].domain = << << 0, 0, 0 >>, << 4, 8, 4 >> >>
    /\ Len(wcall.arg.elems[1].table) = 3
    /\ ChannelBlock(2).count = << "3" >>
    /\ ChannelBlock(2).domain = << << "0.0" >>, << "1.0" >>, << "2.0" >> >>

\* a bare LUT3x1D of three samples was written with the block of two
C24_BareShaperWrittenSynthetic ==
    /\ wcall.called
    /\ wcall.status = "ok"
    /\ ~wcall.arg.seq
    /\ wcall.arg.elems[1].cls = "LUT3x1D"
    /\ Len(wcall.arg.elems[1].table) = 3
    /\ ChannelBlock(1).count = << "2" >>
    /\ ChannelBlock(1).value = << << "0.0" >>, << "1.0" >> >>

\* the cube that a value holds: its last element
CubeOf(v) == v.elems[Len(v.elems)]

\* the size line and the table rows of the file of the last write, as words
WrittenTable ==
    LET L == ReadLines(fs[wcall.path].text)
        b == 5 + CommentCount(wcall.arg) + 13
    IN  [r \in 1..(Len(L) - b + 1) |-> Split(L[b + r - 1])]

\* the file of the last write holds the size line Nr Ng Nb and, in row
\* i + Nr * j + Nr * Ng * k, the triple [i][j][k] of the cube
RowsOfCube(cube) ==
    LET Nr == Len(cube)
        Ng == Len(cube[1])
        Nb == Len(cube[1][1])
        T  == WrittenTable
    IN  /\ T[1] = << << IntStr(Nr) >>, << IntStr(Ng) >>, << IntStr(Nb) >> >>
        /\ Len(T) = Nr * Ng * Nb + 1
        /\ \A i \in 0..(Nr - 1) : \A j \in 0..(Ng - 1) : \A k \in 0..(Nb - 1) :
            LET row == T[i + Nr * j + Nr * Ng * k + 2]
            IN  /\ IsFloatRow(row)
                /\ FloatRow(row) = Rounded(cube[i + 1][j + 1][k + 1])

\* the cube read has the shape of the cube written and, at every index, its
\* triple at the writer's precision
CubeReturned(got, cube) ==
    /\ Len(got) = Len(cube)
    /\ \A i \in 1..Len(cube) :
        /\ Len(got[i]) = Len(cube[i])
        /\ \A j \in 1..Len(cube[i]) :
            /\ Len(got[i][j]) = Len(cube[i][j])
            /\ \A k \in 1..Len(cube[i][j]) :
                got[i][j][k] = Rounded(cube[i][j][k])

\* C25: for a cube of shape (Nr, Ng, Nb, 3), write_LUT_Cinespace emits the
\* size line Nr Ng Nb and then Nr * Ng * Nb rows, row i + Nr * j + Nr * Ng * k
\* holding the triple table[i][j][k] (the first axis varying fastest), and
\* read_LUT_Cinespace places that row back at [i][j][k]: every entry of the
\* cube is at its own index after write then read, for the cubes that are
\* not cubic too.
C25_CubeRowsFirstAxisFastest ==
    /\ (wcall.called /\ wcall.status = "ok" /\ RealCube(wcall.arg))
          => RowsOfCube(CubeOf(wcall.arg).table)
    /\ (rcall.called /\ rcall.origin.kind = "written" /\ RealCube(Written)
            /\ rcall.status = "ok")
          => /\ CubeOf(rcall.lut).cls = "LUT3D"
             /\ CubeReturned(CubeOf(rcall.lut).table, CubeOf(Written).table)

\* a cube of 2 x 1 x 2 was written and read: the triple [1][0][0] is in the
\* second row and back at [1][0][0], the triple [0][0][1] in the third
C25_Witness ==
    /\ rcall.called
    /\ rcall.origin.kind = "written"
    /\ rcall.status = "ok"
    /\ wcall.called
    /\ wcall.path = rcall.path
    /\ RealCube(Written)
    /\ Len(CubeOf(Written).table) = 2
    /\ Len(CubeOf(Written).table[1]) = 1
    /\ Len(CubeOf(Written).table[1][1]) = 2
    /\ FloatRow(WrittenTable[3]) = Rounded(CubeOf(Written).table[2][1][1])
    /\ FloatRow(WrittenTable[4]) = Rounded(CubeOf(Written).table[1][1][2])
    /\ CubeOf(rcall.lut).table[2][1][1] = Rounded(CubeOf(Written).table[2][1][1])
    /\ CubeOf(rcall.lut).table[2][1][1] # CubeOf(rcall.lut).table[1][1][2]

\* ---------------------------------------------------------------------
\* C26  the ragged shaper of a sequence, written channel by channel

\* the value written is a sequence whose shaper has an explicit domain
\* (is_domain_explicit) that is padded with NaN
WroteRaggedShaper ==
    /\ wcall.called
    /\ wcall.status = "ok"
    /\ wcall.arg.seq
    /\ is_domain_explicit(wcall.arg.elems[1])
    /\ HasNaN(wcall.arg.elems[1].domain, 2)

\* column c of the rows of a shaper
Column(rows, c) == [j \in 1..Len(rows) |-> rows[j][c]]

NaNCount(col) == Cardinality({j \in 1..Len(col) : IsNaN(col[j])})

\* every NaN of the column comes after every sample
TrailingOnly(col) ==
    \A j \in 1..Len(col) : \A k \in 1..Len(col) :
        (IsNaN(col[j]) /\ k > j) => IsNaN(col[k])

\* the samples of a column, in order
Samples(col) == SelectSeq(col, LAMBDA x : ~IsNaN(x))

\* C26: when write_LUT_Cinespace writes a sequence whose shaper has an
\* explicit, NaN-padded domain, the count line of each channel is the padded
\* length less the number of NaN in the channel's domain column, and the
\* domain row and the value row hold the first that many entries of the
\* channel's domain and table columns; when the NaN of the domain column are
\* all trailing, the domain row holds no NaN and every sample of the column.
C26_RaggedShaperWrittenByChannel ==
    WroteRaggedShaper
        => \A c \in 1..3 :
            LET s   == wcall.arg.elems[1]
                dom == Column(s.domain, c)
                val == Column(s.table, c)
                cnt == Len(dom) - NaNCount(dom)
                blk == ChannelBlock(c)
            IN  /\ blk.count = << IntStr(cnt) >>
                /\ Len(blk.domain) = cnt
                /\ Len(blk.value) = cnt
                /\ \A j \in 1..cnt :
                    /\ blk.domain[j] = << FormatFloat(dom[j]) >>
                    /\ blk.value[j] = << FormatFloat(val[j]) >>
                /\ TrailingOnly(dom)
                    => /\ \A j \in 1..cnt : blk.domain[j] # << "nan" >>
                       /\ FloatRow(blk.domain) = Rounded(Samples(dom))

\* a shaper of the channel lengths 2, 3, 1 was written: the third channel
\* has the count 1 and one entry in each row
C26_Witness ==
    /\ WroteRaggedShaper
    /\ wcall.arg.elems[1].domain = ExplicitDomain(<< 2, 3, 1 >>)
    /\ ChannelBlock(3).count = << "1" >>
    /\ Len(ChannelBlock(3).domain) = 1
    /\ ChannelBlock(1).count = << "2" >>

\* without the proviso: a NaN that comes before a sample is written and the
\* sample after it is dropped
C26_LeadingNaNWritten ==
    /\ WroteRaggedShaper
    /\ ~TrailingOnly(Column(wcall.arg.elems[1].domain, 1))
    /\ ChannelBlock(1).domain[1] = << "nan" >>

\* ---------------------------------------------------------------------
\* C27  the file handle of a call

\* the last write was refused by the type check or by a size check
RefusedByCheck ==
    /\ wcall.called
    /\ \/ ~Writable(wcall.arg)
       \/ wcall.status \in {"TypeError", "AssertionError"}

\* C27: read_LUT_Cinespace and write_LUT_Cinespace leave no file handle
\* open: the handle a call has opened is closed when the call returns, when
\* a check of the format or of the table size fails, and when an error is
\* raised while the file is read or written; and a write that is refused by
\* the type check or by a size check has opened no handle at all.
C27_HandleClosedOnEveryExit ==
    /\ rcall.called
        => /\ rcall.handles.opened = 1
           /\ rcall.handles.closed = rcall.handles.opened
    /\ wcall.called
        => /\ wcall.handles.closed = wcall.handles.opened
           /\ wcall.handles.opened = (IF wcall.opened THEN 1 ELSE 0)
           /\ RefusedByCheck
                => /\ wcall.handles.opened = 0
                   /\ PathUntouched

\* a read failed on the kind line, inside the block that holds the handle,
\* and the handle is closed
C27_Witness ==
    /\ rcall.called
    /\ rcall.status = "AssertionError"
    /\ rcall.msg = "LUT type must be 1D or 3D"
    /\ ~BlockEnded(rcall)
    /\ rcall.handles = [opened |-> 1, closed |-> 1]

\* a read failed on an error other than a check, with its handle closed
C27_ReadErrorHandleClosed ==
    /\ rcall.called
    /\ rcall.status \in {"IndexError", "ValueError"}
    /\ ~BlockEnded(rcall)
    /\ rcall.handles.closed = 1

\* a write was refused by a size check and opened nothing
C27_RefusedWriteOpenedNothing ==
    /\ wcall.called
    /\ wcall.status = "AssertionError"
    /\ Writable(wcall.arg)
    /\ wcall.handles = NoHandles

\* a write returned with its handle closed
C27_WriteReturnedClosed ==
    /\ wcall.called
    /\ wcall.status = "ok"
    /\ wcall.handles = [opened |-> 1, closed |-> 1]

\* ---------------------------------------------------------------------
\* C28  the values read, handed to the writer

\* the type check of write_LUT_Cinespace let the value through
PassedTypeCheck(v) == Normalise(v).status = "ok"

\* C28: every value that read_LUT_Cinespace returns - a LUT3x1D, a LUT3D, a
\* LUTSequence of a shaper and a cube, a LUTSequence of a pre-LUT and a
\* table - passes the type check of write_LUT_Cinespace when it is written.
C28_EveryValueReadPassesTypeCheck ==
    (wcall.called /\ wcall.fromRead) => PassedTypeCheck(wcall.arg)

\* the same for the values that are not a sequence of two LUT3x1D
C28_ValuesButThePairPassTypeCheck ==
    (wcall.called /\ wcall.fromRead
        /\ ~(wcall.arg.seq /\ wcall.arg.elems[2].cls = "LUT3x1D"))
        => /\ PassedTypeCheck(wcall.arg)
           /\ wcall.status # "TypeError"

\* the sequence of a pre-LUT and a table that a file of kind 1D was read as
\* is refused by the check of the sequence
C28_PreLUTAndTableRefused ==
    /\ wcall.called
    /\ wcall.fromRead
    /\ wcall.source.status = "ok"
    /\ ~wcall.source.locals.is_3D
    /\ wcall.arg = wcall.source.lut
    /\ wcall.arg.seq
    /\ wcall.arg.elems[1].cls = "LUT3x1D"
    /\ wcall.arg.elems[2].cls = "LUT3x1D"
    /\ ~PassedTypeCheck(wcall.arg)
    /\ wcall.status = "AssertionError"
    /\ wcall.handles = NoHandles

\* ---------------------------------------------------------------------
\* C29  the four branches of the classification

\* the file read passed the checks of its header, its kind and its table
\* size
PassedChecks ==
    /\ Parsed
    /\ TableSizeValid(rcall.locals.size, rcall.locals.table)

\* the classes of the LUTs of a value, and whether it is a sequence
Classes(v) == [seq |-> v.seq, cls |-> [j \in 1..Len(v.elems) |-> v.elems[j].cls]]

\* the one result that the kind and the domain block of the file read call
\* for
ResultOfItsBranch ==
    LET got == Classes(rcall.lut)
    IN  IF rcall.locals.is_3D /\ UnitValueRows
        THEN got = [seq |-> FALSE, cls |-> << "LUT3D" >>]
        ELSE IF ~rcall.locals.is_3D /\ UnitValueRows
        THEN got = [seq |-> FALSE, cls |-> << "LUT3x1D" >>]
        ELSE IF rcall.locals.is_3D
        THEN got = [seq |-> TRUE, cls |-> << "LUT3x1D", "LUT3D" >>]
        ELSE got \in {[seq |-> FALSE, cls |-> << "LUT3x1D" >>],
                      [seq |-> TRUE, cls |-> << "LUT3x1D", "LUT3x1D" >>]}

\* C29: every file that passes the header, kind and table-size checks of
\* read_LUT_Cinespace yields exactly one result, that of the one branch its
\* kind and its domain block select: a file of kind 3D a LUT3D or a
\* LUTSequence whose second element is a LUT3D, a file of kind 1D a LUT3x1D
\* or a LUTSequence of two LUT3x1D, never a LUT3D.
C29_EveryCheckedFileYieldsOneResult ==
    PassedChecks
        => /\ rcall.status = "ok"
           /\ ResultOfItsBranch

\* the same for the reads that return
C29_EveryValueReturnedOfItsBranch ==
    (rcall.called /\ rcall.status = "ok")
        => /\ PassedChecks
           /\ ResultOfItsBranch
           /\ rcall.locals.is_3D
                <=> rcall.lut.elems[Len(rcall.lut.elems)].cls = "LUT3D"

\* a file of kind 3D passed the three checks and no value was returned: each
\* of its two rows holds three numbers and its size line the one integer 2
C29_CheckedFileWithoutResult ==
    /\ PassedChecks
    /\ rcall.locals.is_3D
    /\ rcall.locals.size = << 2 >>
    /\ \A r \in 1..2 : Len(rcall.locals.table[r]) = 3
    /\ rcall.status = "IndexError"
    /\ rcall.lut = NoLUT

\* ---------------------------------------------------------------------
\* C30  the counts declared and the rows of the channels

\* the numbers of values in the domain row and in the value row of channel c
\* of the file read
ChannelRowLengths(c) ==
    << Len(SectionRows[2 * c - 1]), Len(SectionRows[2 * c]) >>

\* C30: in every file that read_LUT_Cinespace accepts, the count that each
\* channel declares is the number of values in the channel's domain row and
\* in its value row: a file in which a row is shorter or longer than the
\* count of its own channel is rejected.
C30_RowsHoldTheDeclaredCount ==
    (rcall.called /\ rcall.status = "ok")
        => \A c \in 1..3 :
            ChannelRowLengths(c) = << DeclaredCounts[c], DeclaredCounts[c] >>

\* what the reader does reject: a row longer than the largest of the three
\* counts
C30_NoRowLongerThanLargestCount ==
    (rcall.called /\ rcall.status = "ok")
        => \A c \in 1..3 : \A k \in 1..2 :
            ChannelRowLengths(c)[k] <= SetMax({DeclaredCounts[i] : i \in 1..3})

\* a file whose first channel declares 2 samples and holds 1 was accepted,
\* the missing sample read as NaN
C30_ShortRowAccepted ==
    /\ rcall.called
    /\ rcall.status = "ok"
    /\ rcall.origin.kind = "placed"
    /\ DeclaredCounts = << 2, 2, 2 >>
    /\ ChannelRowLengths(1) = << 1, 1 >>
    /\ IsNaN(rcall.locals.pre_LUT[1][2])

\* a file whose first channel declares 2 samples and holds 3, as many as the
\* second channel declares, was accepted
C30_LongRowAccepted ==
    /\ rcall.called
    /\ rcall.status = "ok"
    /\ rcall.origin.kind = "placed"
    /\ DeclaredCounts = << 2, 3, 2 >>
    /\ ChannelRowLengths(1) = << 3, 3 >>

====
